---- MODULE Spec2Model ----
(***************************************************************************)
(* Model of the surgefx data generators: the synthetic card-transaction    *)
(* generator (generate_transaction_csv.py) and the offer generator         *)
(* (generate_dummy_data.py).                                               *)
(*                                                                         *)
(* Conventions.                                                            *)
(*  - A Python str is a sequence of one-character strings, so that         *)
(*    lower() and the substring test `keyword in name` are computed.       *)
(*  - A datetime is its day ordinal (days since Epoch); .year/.month/.day, *)
(*    replace() and strftime("%Y-%m-%d") are computed from the calendar.   *)
(*    Both ends of an interval carry the same time of day in the program   *)
(*    (START_DATE and END_DATE both derive from now()), so comparing       *)
(*    datetimes is comparing ordinals.                                     *)
(*  - Money is fixed point: an integer count of 1/Scale currency units;     *)
(*    products stay below 2^31, the range of TLC's integers.       *)
(*    round(x, 2) rounds to a multiple of Cent, ties to even.  Binary      *)
(*    floating-point representation error is not modelled.                 *)
(*  - Every call of the random module is a nondeterministic choice (\E).   *)
(***************************************************************************)
EXTENDS Integers, Sequences, FiniteSets, TLC

\* Python None; a present optional value x is <<x>>
None == <<>>

(***************************************************************************)
(* Calendar (datetime.date arithmetic).                                    *)
(***************************************************************************)
\* ordinal 0 is 2023-01-01, a Sunday
Epoch == [year |-> 2023, weekday |-> 6]
EpochYear == Epoch.year
\* the last calendar year the model tabulates
LastYear == 2024

IsLeap(y) == (y % 4 = 0 /\ y % 100 # 0) \/ y % 400 = 0

DaysInMonth(y, m) ==
  IF m = 2 THEN (IF IsLeap(y) THEN 29 ELSE 28)
  ELSE IF m \in {4, 6, 9, 11} THEN 30 ELSE 31

DaysInYear(y) == IF IsLeap(y) THEN 366 ELSE 365

RECURSIVE DaysBeforeYear(_)
DaysBeforeYear(y) ==
  IF y <= EpochYear THEN 0 ELSE DaysBeforeYear(y - 1) + DaysInYear(y - 1)

RECURSIVE DaysBeforeMonth(_, _)
DaysBeforeMonth(y, m) ==
  IF m <= 1 THEN 0 ELSE DaysBeforeMonth(y, m - 1) + DaysInMonth(y, m - 1)

\* datetime(y, m, d) as an ordinal
ToOrdinal(y, m, d) == DaysBeforeYear(y) + DaysBeforeMonth(y, m) + (d - 1)

MaxOrdinal == DaysBeforeYear(LastYear + 1) - 1

\* ordinal -> <<year, month, day>>, tabulated once for the modelled years
FromOrdinalTable ==
  [n \in 0..MaxOrdinal |->
     LET y == CHOOSE yy \in EpochYear..LastYear :
                 DaysBeforeYear(yy) <= n /\ n < DaysBeforeYear(yy + 1)
         r == n - DaysBeforeYear(y)
         m == CHOOSE mm \in 1..12 :
                 DaysBeforeMonth(y, mm) <= r
                 /\ r < DaysBeforeMonth(y, mm) + DaysInMonth(y, mm)
     IN <<y, m, r - DaysBeforeMonth(y, m) + 1>>]

YearOf(n) == FromOrdinalTable[n][1]
MonthOf(n) == FromOrdinalTable[n][2]
DayOf(n) == FromOrdinalTable[n][3]

\* date.weekday(): Monday = 0 .. Sunday = 6
Weekday(n) == (n + Epoch.weekday) % 7

\* date.strftime("%Y-%m-%d"): the zero-padded fields, compared field by field
\* exactly as the fixed-width strings compare
Strftime(n) == FromOrdinalTable[n]

DateStrLess(a, b) ==
  \/ a[1] < b[1]
  \/ a[1] = b[1] /\ a[2] < b[2]
  \/ a[1] = b[1] /\ a[2] = b[2] /\ a[3] < b[3]

\* the number of days between two formatted dates (b - a)
DateStrDiff(a, b) == ToOrdinal(b[1], b[2], b[3]) - ToOrdinal(a[1], a[2], a[3])

(***************************************************************************)
(* Money.                                                                  *)
(***************************************************************************)
Scale == 10 ^ 3
Cent == Scale \div 100
Dollars(whole, hundredths) == whole * Scale + hundredths * Cent

\* the integer nearest to num/den (den > 0), ties to the even integer
RoundHalfEven(num, den) ==
  LET q == num \div den
      r == num % den
  IN IF 2 * r < den THEN q
     ELSE IF 2 * r > den THEN q + 1
     ELSE IF q % 2 = 0 THEN q ELSE q + 1

\* round(x, 2) of a value x given as num/den money units
Round2(num, den) == Cent * RoundHalfEven(num, den * Cent)

(***************************************************************************)
(* Strings.                                                                *)
(***************************************************************************)
Upper == <<"A","B","C","D","E","F","G","H","I","J","K","L","M",
           "N","O","P","Q","R","S","T","U","V","W","X","Y","Z">>
Lowercase == <<"a","b","c","d","e","f","g","h","i","j","k","l","m",
           "n","o","p","q","r","s","t","u","v","w","x","y","z">>

\* str.upper, a character at a time
UpperChar(c) ==
  IF \E i \in DOMAIN Lowercase : Lowercase[i] = c
  THEN Upper[CHOOSE i \in DOMAIN Lowercase : Lowercase[i] = c]
  ELSE c

Capitals(k) == [i \in DOMAIN k |-> UpperChar(k[i])]

LowerChar(c) ==
  IF \E i \in 1..Len(Upper) : Upper[i] = c
  THEN Lowercase[CHOOSE i \in 1..Len(Upper) : Upper[i] = c]
  ELSE c

\* str.lower()
Lower(s) == [i \in 1..Len(s) |-> LowerChar(s[i])]

\* `k in s` for strings
Contains(s, k) ==
  \E i \in 1..(Len(s) - Len(k) + 1) : SubSeq(s, i, i + Len(k) - 1) = k

Range(s) == {s[i] : i \in DOMAIN s}

Max(a, b) == IF a >= b THEN a ELSE b
Min(a, b) == IF a <= b THEN a ELSE b

(***************************************************************************)
(* The catalog (module constants of generate_transaction_csv.py).          *)
(***************************************************************************)
\* MCC_CODES.keys(), in insertion order
MCC_CODES ==
  << "5411", "5542", "5812", "5814", "5912", "5311", "5661", "5699", "7832", "5999", "4111", "7011", "4121", "5732", "8011", "8021", "8099", "8299", "4816", "5945", "5094", "5941", "7999", "7230", "7512", "4899", "6300" >>

\* get_merchants()
get_merchants ==
  << <<"W","a","l","m","a","r","t">>,
     <<"T","a","r","g","e","t">>,
     <<"A","m","a","z","o","n">>,
     <<"C","o","s","t","c","o">>,
     <<"K","r","o","g","e","r">>,
     <<"H","o","m","e"," ","D","e","p","o","t">>,
     <<"W","a","l","g","r","e","e","n","s">>,
     <<"C","V","S">>,
     <<"L","o","w","e","'","s">>,
     <<"B","e","s","t"," ","B","u","y">>,
     <<"A","p","p","l","e">>,
     <<"M","c","D","o","n","a","l","d","'","s">>,
     <<"S","t","a","r","b","u","c","k","s">>,
     <<"S","u","b","w","a","y">>,
     <<"T","a","c","o"," ","B","e","l","l">>,
     <<"S","h","e","l","l">>,
     <<"B","P">>,
     <<"E","x","x","o","n">>,
     <<"C","h","e","v","r","o","n">>,
     <<"N","e","t","f","l","i","x">>,
     <<"S","p","o","t","i","f","y">>,
     <<"U","b","e","r">>,
     <<"L","y","f","t">>,
     <<"D","e","l","t","a"," ","A","i","r","l","i","n","e","s">>,
     <<"A","m","e","r","i","c","a","n"," ","A","i","r","l","i","n","e","s">>,
     <<"H","i","l","t","o","n">>,
     <<"M","a","r","r","i","o","t","t">>,
     <<"A","i","r","b","n","b">>,
     <<"P","l","a","n","e","t"," ","F","i","t","n","e","s","s">>,
     <<"L","A"," ","F","i","t","n","e","s","s">>,
     <<"7","-","E","l","e","v","e","n">>,
     <<"A","T","&","T">>,
     <<"V","e","r","i","z","o","n">>,
     <<"T","-","M","o","b","i","l","e">>,
     <<"C","o","m","c","a","s","t">>,
     <<"C","h","a","r","t","e","r">>,
     <<"D","i","s","h"," ","N","e","t","w","o","r","k">>,
     <<"X","b","o","x">>,
     <<"P","l","a","y","S","t","a","t","i","o","n">>,
     <<"N","i","n","t","e","n","d","o">>,
     <<"W","h","o","l","e"," ","F","o","o","d","s">>,
     <<"T","r","a","d","e","r"," ","J","o","e","'","s">>,
     <<"A","l","d","i">>,
     <<"S","a","f","e","w","a","y">>,
     <<"P","u","b","l","i","x">>,
     <<"A","l","b","e","r","t","s","o","n","s">>,
     <<"H","&","M">>,
     <<"Z","a","r","a">>,
     <<"G","a","p">>,
     <<"N","i","k","e">>,
     <<"A","d","i","d","a","s">>,
     <<"S","e","p","h","o","r","a">>,
     <<"U","l","t","a"," ","B","e","a","u","t","y">>,
     <<"H","o","m","e"," ","G","o","o","d","s">>,
     <<"T","J"," ","M","a","x","x">>,
     <<"R","o","s","s">>,
     <<"K","o","h","l","'","s">>,
     <<"M","a","c","y","'","s">>,
     <<"N","o","r","d","s","t","r","o","m">>,
     <<"C","h","i","p","o","t","l","e">>,
     <<"P","a","n","e","r","a"," ","B","r","e","a","d">>,
     <<"O","l","i","v","e"," ","G","a","r","d","e","n">>,
     <<"C","h","e","e","s","e","c","a","k","e"," ","F","a","c","t","o","r","y">>,
     <<"A","M","C"," ","T","h","e","a","t","e","r","s">>,
     <<"R","e","g","a","l"," ","C","i","n","e","m","a","s">>,
     <<"B","a","r","n","e","s"," ","&"," ","N","o","b","l","e">>,
     <<"O","f","f","i","c","e"," ","D","e","p","o","t">>,
     <<"S","t","a","p","l","e","s">>,
     <<"I","K","E","A">>,
     <<"W","a","y","f","a","i","r">>,
     <<"E","t","s","y">>,
     <<"e","B","a","y">>,
     <<"U","b","e","r"," ","E","a","t","s">>,
     <<"D","o","o","r","D","a","s","h">>,
     <<"I","n","s","t","a","c","a","r","t">>,
     <<"G","r","u","b","h","u","b">>,
     <<"F","e","d","E","x">>,
     <<"U","P","S">>,
     <<"U","S","P","S">>,
     <<"V","e","n","m","o">>,
     <<"P","a","y","P","a","l">>,
     <<"C","a","s","h"," ","A","p","p">>,
     <<"B","a","n","k"," ","o","f"," ","A","m","e","r","i","c","a">>,
     <<"C","h","a","s","e">>,
     <<"W","e","l","l","s"," ","F","a","r","g","o">>,
     <<"C","i","t","i","b","a","n","k">> >>

\* the subscription merchants create_spending_profile chooses from
RecurringMerchants ==
  << <<"N","e","t","f","l","i","x">>,
     <<"S","p","o","t","i","f","y">>,
     <<"A","m","a","z","o","n"," ","P","r","i","m","e">>,
     <<"G","y","m"," ","M","e","m","b","e","r","s","h","i","p">>,
     <<"I","n","t","e","r","n","e","t"," ","S","e","r","v","i","c","e">>,
     <<"P","h","o","n","e"," ","B","i","l","l">>,
     <<"I","n","s","u","r","a","n","c","e">>,
     <<"S","t","r","e","a","m","i","n","g"," ","S","e","r","v","i","c","e">>,
     <<"S","u","b","s","c","r","i","p","t","i","o","n"," ","B","o","x">>,
     <<"C","l","o","u","d"," ","S","t","o","r","a","g","e">> >>

\* keyword_to_mcc.items(), in insertion order
keyword_to_mcc ==
  << <<<<"w","a","l","m","a","r","t">>, "5311">>,
     <<<<"t","a","r","g","e","t">>, "5311">>,
     <<<<"c","o","s","t","c","o">>, "5311">>,
     <<<<"k","r","o","g","e","r">>, "5411">>,
     <<<<"f","o","o","d">>, "5411">>,
     <<<<"g","r","o","c","e","r","y">>, "5411">>,
     <<<<"m","a","r","k","e","t">>, "5411">>,
     <<<<"s","h","e","l","l">>, "5542">>,
     <<<<"b","p">>, "5542">>,
     <<<<"e","x","x","o","n">>, "5542">>,
     <<<<"c","h","e","v","r","o","n">>, "5542">>,
     <<<<"g","a","s">>, "5542">>,
     <<<<"m","c","d","o","n","a","l","d">>, "5814">>,
     <<<<"s","t","a","r","b","u","c","k","s">>, "5814">>,
     <<<<"s","u","b","w","a","y">>, "5814">>,
     <<<<"t","a","c","o"," ","b","e","l","l">>, "5814">>,
     <<<<"r","e","s","t","a","u","r","a","n","t">>, "5812">>,
     <<<<"g","r","i","l","l">>, "5812">>,
     <<<<"c","a","f","e">>, "5812">>,
     <<<<"d","i","n","e","r">>, "5812">>,
     <<<<"w","a","l","g","r","e","e","n","s">>, "5912">>,
     <<<<"c","v","s">>, "5912">>,
     <<<<"p","h","a","r","m","a","c","y">>, "5912">>,
     <<<<"s","h","o","e">>, "5661">>,
     <<<<"c","l","o","t","h">>, "5699">>,
     <<<<"a","p","p","a","r","e","l">>, "5699">>,
     <<<<"f","a","s","h","i","o","n">>, "5699">>,
     <<<<"m","o","v","i","e">>, "7832">>,
     <<<<"c","i","n","e","m","a">>, "7832">>,
     <<<<"t","h","e","a","t","e","r">>, "7832">>,
     <<<<"b","e","s","t"," ","b","u","y">>, "5732">>,
     <<<<"a","p","p","l","e">>, "5732">>,
     <<<<"e","l","e","c","t","r","o","n","i","c","s">>, "5732">>,
     <<<<"d","o","c","t","o","r">>, "8011">>,
     <<<<"c","l","i","n","i","c">>, "8011">>,
     <<<<"h","o","s","p","i","t","a","l">>, "8011">>,
     <<<<"d","e","n","t","a","l">>, "8021">>,
     <<<<"d","e","n","t","i","s","t">>, "8021">>,
     <<<<"g","y","m">>, "7999">>,
     <<<<"f","i","t","n","e","s","s">>, "7999">>,
     <<<<"u","b","e","r">>, "4121">>,
     <<<<"l","y","f","t">>, "4121">>,
     <<<<"t","a","x","i">>, "4121">>,
     <<<<"h","o","t","e","l">>, "7011">>,
     <<<<"m","o","t","e","l">>, "7011">>,
     <<<<"h","i","l","t","o","n">>, "7011">>,
     <<<<"m","a","r","r","i","o","t","t">>, "7011">>,
     <<<<"a","i","r","l","i","n","e">>, "4111">>,
     <<<<"f","l","i","g","h","t">>, "4111">>,
     <<<<"d","e","l","t","a">>, "4111">>,
     <<<<"a","m","e","r","i","c","a","n"," ","a","i","r","l","i","n","e","s">>, "4111">>,
     <<<<"n","e","t","f","l","i","x">>, "4816">>,
     <<<<"s","p","o","t","i","f","y">>, "4816">>,
     <<<<"o","n","l","i","n","e">>, "4816">>,
     <<<<"t","o","y">>, "5945">>,
     <<<<"h","o","b","b","y">>, "5945">>,
     <<<<"s","p","o","r","t">>, "5941">>,
     <<<<"a","t","h","l","e","t","i","c">>, "5941">>,
     <<<<"s","a","l","o","n">>, "7230">>,
     <<<<"b","a","r","b","e","r">>, "7230">>,
     <<<<"b","e","a","u","t","y">>, "7230">>,
     <<<<"i","n","s","u","r","a","n","c","e">>, "6300">>,
     <<<<"i","n","t","e","r","n","e","t">>, "4899">>,
     <<<<"c","a","b","l","e">>, "4899">>,
     <<<<"a","t","&","t">>, "4899">>,
     <<<<"v","e","r","i","z","o","n">>, "4899">> >>

(***************************************************************************)
(* assign_mcc_to_merchant                                                  *)
(***************************************************************************)
\* the indices of the keywords that occur in the lowercased name
MatchingKeywords(merchant_lower) ==
  {i \in 1..Len(keyword_to_mcc) : Contains(merchant_lower, keyword_to_mcc[i][1])}

SetMin(S) == CHOOSE x \in S : \A y \in S : x <= y

\* variant: the name is searched as given, not lower-cased
first_keyword_as_given(merchant_name) ==
  LET hits == MatchingKeywords(merchant_name)
  IN IF hits # {} THEN keyword_to_mcc[SetMin(hits)][2] ELSE "5999"

first_keyword_mcc(merchant_name) ==
  LET merchant_lower == Lower(merchant_name)
      hits == MatchingKeywords(merchant_lower)
  IN IF hits # {} THEN keyword_to_mcc[SetMin(hits)][2] ELSE "5999"

\* the function is pure: its value on the catalog's names is tabulated once
CatalogNames == Range(get_merchants) \cup Range(RecurringMerchants)
CatalogMcc == [name \in CatalogNames |-> first_keyword_mcc(name)]

assign_mcc_to_merchant(merchant_name) ==
  IF merchant_name \in CatalogNames
  THEN CatalogMcc[merchant_name]
  ELSE first_keyword_mcc(merchant_name)

(***************************************************************************)
(* create_spending_profile.  A weight is a probability in thousandths      *)
(* before normalization and in units of 1/WeightOne after it: the division *)
(* by the total rounds to the nearest unit, as the float division rounds.  *)
(* rnd.primary_categories and rnd.secondary_categories are the two         *)
(* random.sample results; rnd.mcc_u[mcc] and rnd.time_u[key] are the       *)
(* random.random() behind each random.uniform, in steps of 1/UnitSteps;    *)
(* rnd.weekday_weight is random.uniform(0.5, 0.7) in thousandths;          *)
(* rnd.min_amount .. rnd.std_amount are the four amount draws (money);     *)
(* rnd.recurring is the list of (merchant, amount, day_of_month) draws,    *)
(* empty when random.random() >= 0.8.                                      *)
(***************************************************************************)
UnitSteps == 2
WeightOne == 10 ^ 6

\* random.uniform(a, b): a + (b - a) * random.random()
Uniform(a, b, u) == a + ((b - a) * u) \div UnitSteps

RECURSIVE SumSeq(_, _, _)
\* sum(d.values()) over the first n keys
SumSeq(d, keys, n) == IF n = 0 THEN 0 ELSE d[keys[n]] + SumSeq(d, keys, n - 1)

\* variant: a secondary category drawn from the range of the primary ones
raw_mcc_preference_flat(rnd) ==
  [mcc \in Range(MCC_CODES) |->
     IF mcc \in rnd.primary_categories THEN Uniform(100, 250, rnd.mcc_u[mcc])
     ELSE IF mcc \in rnd.secondary_categories THEN Uniform(10, 250, rnd.mcc_u[mcc])
     ELSE Uniform(0, 10, rnd.mcc_u[mcc])]

\* lines 149-155: the weight of each category before normalization
raw_mcc_preference(rnd) ==
  [mcc \in Range(MCC_CODES) |->
     IF mcc \in rnd.primary_categories THEN Uniform(100, 250, rnd.mcc_u[mcc])
     ELSE IF mcc \in rnd.secondary_categories THEN Uniform(10, 90, rnd.mcc_u[mcc])
     ELSE Uniform(0, 10, rnd.mcc_u[mcc])]

\* variant: the weights are left as drawn
normalize_skipped(d, keys) == d

\* lines 158-160 and 173-175: d[k] /= total
normalize(d, keys) ==
  LET total == SumSeq(d, keys, Len(keys))
  IN [k \in DOMAIN d |-> RoundHalfEven(d[k] * WeightOne, total)]

TIME_KEYS == <<"morning", "afternoon", "evening", "night">>

\* lines 167-172
raw_time_preferences(rnd) ==
  [morning |-> Uniform(0, 300, rnd.time_u.morning),
   afternoon |-> Uniform(200, 500, rnd.time_u.afternoon),
   evening |-> Uniform(200, 500, rnd.time_u.evening),
   night |-> Uniform(0, 200, rnd.time_u.night)]

recurring_entry(merchant, amount, day_of_month) ==
  [merchant |-> merchant,
   amount |-> amount,
   day_of_month |-> day_of_month,
   mcc |-> assign_mcc_to_merchant(merchant)]

create_spending_profile(rnd) ==
  [mcc_preference |-> normalize(raw_mcc_preference(rnd), MCC_CODES),
   weekday_weight |-> rnd.weekday_weight,
   weekend_weight |-> 1000 - rnd.weekday_weight,
   time_preferences |-> normalize(raw_time_preferences(rnd), TIME_KEYS),
   amount_profile |-> [min_amount |-> rnd.min_amount,
                       max_amount |-> rnd.max_amount,
                       avg_amount |-> rnd.avg_amount,
                       std_amount |-> rnd.std_amount],
   recurring_transactions |->
     [i \in 1..Len(rnd.recurring) |->
        recurring_entry(rnd.recurring[i].merchant,
                        rnd.recurring[i].amount,
                        rnd.recurring[i].day_of_month)]]

(***************************************************************************)
(* generate_card_data.  A card number is a sequence of digit characters.   *)
(* rnd.card_type is the random.choice of the network, rnd.second the       *)
(* second digit where the network fixes its range, rnd.digits the stream   *)
(* of random.randint(0, 9) digits, of which the branch takes the first 13, *)
(* 14 or 15.  The expiration date is left out.                             *)
(***************************************************************************)
CARD_TYPES == <<"Visa", "MasterCard", "American Express", "Discover">>

Digits == {"0", "1", "2", "3", "4", "5", "6", "7", "8", "9"}

\* s[-n:]
LastOf(s, n) == SubSeq(s, Max(Len(s) - n, 0) + 1, Len(s))

\* ' XXXX XXXX '
Redaction == <<" ", "X", "X", "X", "X", " ", "X", "X", "X", "X", " ">>

\* lines 81-88: card_num
card_num_of(rnd) ==
  IF rnd.card_type = "Visa" THEN <<"4">> \o SubSeq(rnd.digits, 1, 15)
  ELSE IF rnd.card_type = "MasterCard"
  THEN <<"5", rnd.second>> \o SubSeq(rnd.digits, 1, 14)
  ELSE IF rnd.card_type = "American Express"
  THEN <<"3", rnd.second>> \o SubSeq(rnd.digits, 1, 13)
  ELSE <<"6">> \o SubSeq(rnd.digits, 1, 15)

\* line 91: masked_card
mask_card(card_num) == SubSeq(card_num, 1, 4) \o Redaction \o LastOf(card_num, 4)

generate_card_data(customer_id, rnd) ==
  [card_type |-> rnd.card_type, card_number |-> mask_card(card_num_of(rnd))]

(***************************************************************************)
(* generate_transaction_time: rnd.period is the weighted choice of the     *)
(* period, rnd.hour the randint within the period's hour range.            *)
(***************************************************************************)
PeriodHours ==
  [morning |-> 6..11, afternoon |-> 12..16, evening |-> 17..20, night |-> 21..23]

generate_transaction_time(date, profile, rnd) ==
  <<rnd.hour, rnd.minute, rnd.second>>

(***************************************************************************)
(* select_merchant_and_mcc: rnd.selected_mcc is the weighted category      *)
(* choice, rnd.merchant the first random.choice(merchants), rnd.preferred  *)
(* the random.choice within the gas or grocery pool when that branch runs. *)
(***************************************************************************)
GasPool == {<<"S","h","e","l","l">>, <<"B","P">>, <<"E","x","x","o","n">>,
            <<"C","h","e","v","r","o","n">>}
GroceryPool == {<<"K","r","o","g","e","r">>, <<"W","a","l","m","a","r","t">>,
                <<"T","a","r","g","e","t">>, <<"C","o","s","t","c","o">>}

\* the pool the preferred merchant is chosen from; {} when neither branch runs
PreferredMerchants(selected_mcc, merchants) ==
  IF selected_mcc = "5542" /\ Range(merchants) \cap GasPool # {}
  THEN Range(merchants) \cap GasPool
  ELSE IF selected_mcc = "5411" /\ Range(merchants) \cap GroceryPool # {}
  THEN Range(merchants) \cap GroceryPool
  ELSE {}

\* variant: the sampled category is returned, not the merchant's
select_merchant_keep_sampled(profile, merchants, rnd) ==
  LET selected_mcc == rnd.selected_mcc
      merchant == IF PreferredMerchants(selected_mcc, merchants) # {}
                  THEN rnd.preferred
                  ELSE rnd.merchant
  IN <<merchant, selected_mcc>>

select_merchant_and_mcc(profile, merchants, rnd) ==
  LET selected_mcc == rnd.selected_mcc
      merchant == IF PreferredMerchants(selected_mcc, merchants) # {}
                  THEN rnd.preferred
                  ELSE rnd.merchant
      actual_mcc == assign_mcc_to_merchant(merchant)
  IN <<merchant, actual_mcc>>

(***************************************************************************)
(* generate_transaction_amount.  rnd.normal is random.normalvariate (any   *)
(* real, here money), rnd.multiplier the category multiplier and rnd.boost *)
(* the Friday/Saturday factor, both in tenths.     now is the day the     *)
(* generator runs: the code reads datetime.datetime.now().                 *)
(***************************************************************************)

\* mcc_amount_multipliers: <<low, high>> of each uniform draw, in tenths
MultiplierRange(mcc) ==
  CASE mcc = "5411" -> <<8, 15>>
    [] mcc = "5542" -> <<5, 12>>
    [] mcc = "5812" -> <<10, 20>>
    [] mcc = "5814" -> <<3, 8>>
    [] mcc = "5912" -> <<6, 12>>
    [] mcc = "5311" -> <<10, 30>>
    [] mcc = "7011" -> <<20, 50>>
    [] mcc = "5732" -> <<15, 40>>
    [] mcc = "4111" -> <<15, 40>>
    [] OTHER -> <<7, 15>>

\* variant: the normal draw is capped above only
generate_transaction_amount_uncapped_below(profile, mcc, now, rnd) ==
  LET amount_profile == profile.amount_profile
      base_amount == Min(rnd.normal, amount_profile.max_amount)
      boosted == Weekday(now) = 4 \/ Weekday(now) = 5
      adjusted_num == base_amount * rnd.multiplier * (IF boosted THEN rnd.boost ELSE 10)
      adjusted_den == 10 * 10
  IN Round2(adjusted_num, adjusted_den)

generate_transaction_amount(profile, mcc, now, rnd) ==
  LET amount_profile == profile.amount_profile
      base_amount == Max(amount_profile.min_amount,
                         Min(rnd.normal, amount_profile.max_amount))
      \* adjusted_amount = adjusted_num / adjusted_den
      boosted == Weekday(now) = 4 \/ Weekday(now) = 5
      adjusted_num == base_amount * rnd.multiplier * (IF boosted THEN rnd.boost ELSE 10)
      adjusted_den == 10 * 10
  IN Round2(adjusted_num, adjusted_den)

(***************************************************************************)
(* generate_transaction.  rnd.refund is random.random() < 0.05,            *)
(* rnd.declined is random.random() < 0.03, rnd.pending the second          *)
(* random.random() < 0.01, rnd.days the settlement randint, rnd.fee_rate   *)
(* random.uniform(0.015, 0.035) in 1/Scale.  The record keeps the fields   *)
(* computed from the arguments and these draws; the fresh random tokens    *)
(* (ids, batch numbers, addresses) are left out.                           *)
(***************************************************************************)
\* lines 386-398: the type and the status
transaction_type_of(rnd) == IF rnd.refund THEN "Refund" ELSE "Sale"

transaction_status_of(rnd) ==
  IF rnd.declined THEN "Declined"
  ELSE IF rnd.pending THEN "Pending"
  ELSE "Approved"

\* variant: the settlement offset starts one day early
settlement_date_early(transaction_status, date, rnd) ==
  IF transaction_status = "Declined" THEN None ELSE <<date + rnd.days - 1>>

\* lines 400-409: settlement_date, a datetime or None
settlement_date_of(transaction_status, date, rnd) ==
  IF transaction_status = "Declined" THEN None ELSE <<date + rnd.days>>

\* variant: the stored amount is rounded to cents
stored_amount_rounded(transaction_type, amount) ==
  IF transaction_type = "Sale" THEN Round2(amount, 1) ELSE -Round2(amount, 1)

\* line 434: the stored amount
stored_amount(transaction_type, amount) ==
  IF transaction_type = "Sale" THEN amount ELSE -amount

\* variant: fees and net amount stored whatever the status
stored_fees_unconditional(transaction_status, amount, rnd) ==
  LET fees == Round2(amount * rnd.fee_rate, Scale)
  IN <<fees, Round2(amount - fees, 1)>>

\* lines 418-419 and 436-437: <<fees, net_amount>> as stored
stored_fees(transaction_status, amount, rnd) ==
  LET fees == Round2(amount * rnd.fee_rate, Scale)
      net_amount == Round2(amount - fees, 1)
  IN <<IF transaction_status = "Approved" THEN fees ELSE 0,
       IF transaction_status = "Approved" THEN net_amount ELSE 0>>

generate_transaction(customer_id, customer_name, merchant, mcc, date, time, amount, card_data, rnd) ==
  LET transaction_type == transaction_type_of(rnd)
      transaction_status == transaction_status_of(rnd)
      settlement_date == settlement_date_of(transaction_status, date, rnd)
      settlement_status == IF transaction_status = "Approved" THEN "Settled"
                           ELSE IF transaction_status = "Pending" THEN "Pending"
                           ELSE "N/A"
      date_str == Strftime(date)
      settlement_date_str == IF settlement_date # None
                             THEN Strftime(settlement_date[1]) ELSE None
      fees_net == stored_fees(transaction_status, amount, rnd)
  IN [customer_id |-> customer_id,
      transaction_date |-> date_str,
      transaction_time |-> time,
      settlement_date |-> settlement_date_str,
      card_type |-> card_data.card_type,
      card_number |-> card_data.card_number,
      payment_method |-> IF card_data.card_type \in Range(CARD_TYPES)
                         THEN "Credit" ELSE "Debit",
      transaction_type |-> transaction_type,
      transaction_status |-> transaction_status,
      merchant_category_code |-> mcc,
      transaction_amount |-> stored_amount(transaction_type, amount),
      currency |-> "USD",
      fees |-> fees_net[1],
      net_amount |-> fees_net[2],
      merchant_name |-> merchant,
      customer_name |-> customer_name,
      settlement_status |-> settlement_status,
      accounting_date |-> settlement_date_str]

(***************************************************************************)
(* generate_recurring_transactions: the date arithmetic.                   *)
(***************************************************************************)
\* while current_date.day > day_of_month: current_date += 1 day
RECURSIVE SkipPastMonthEnd(_, _)
SkipPastMonthEnd(current, day_of_month) ==
  IF DayOf(current) > day_of_month
  THEN SkipPastMonthEnd(current + 1, day_of_month)
  ELSE current

\* while current_date.day != day_of_month: current_date += 1 day
RECURSIVE SkipToDay(_, _)
SkipToDay(current, day_of_month) ==
  IF DayOf(current) # day_of_month
  THEN SkipToDay(current + 1, day_of_month)
  ELSE current

\* "Move to the first occurrence"
first_occurrence(start, day_of_month) ==
  SkipToDay(SkipPastMonthEnd(start, day_of_month), day_of_month)

\* current_date.replace(..., day=1) of the following month
FirstOfNextMonth(current) ==
  IF MonthOf(current) = 12
  THEN ToOrdinal(YearOf(current) + 1, 1, 1)
  ELSE ToOrdinal(YearOf(current), MonthOf(current) + 1, 1)

\* variant: no adjustment after the approximate month step
adjust_day_none(current, day_of_month, end) == current

\* "Adjust to correct day of month"
RECURSIVE adjust_day(_, _, _)
adjust_day(current, day_of_month, end) ==
  IF DayOf(current) # day_of_month /\ current <= end
  THEN LET moved == IF DayOf(current) > day_of_month
                    THEN FirstOfNextMonth(current)
                    ELSE current + 1
       IN IF moved > end THEN moved ELSE adjust_day(moved, day_of_month, end)
  ELSE current

\* "Move to next month (approximately)", then adjust
next_occurrence(current, day_of_month, end) ==
  LET days_to_add == IF MonthOf(current) = 2 THEN 28 ELSE 30
  IN adjust_day(current + days_to_add, day_of_month, end)

(***************************************************************************)
(* The outcomes of the random module the model follows.                    *)
(***************************************************************************)
\* generate_transaction: the draws of one call, by the branch taken
TransactionDraws(refunds, fee_rates) ==
  [refund : refunds, declined : {TRUE}, pending : {FALSE}, days : {0},
   fee_rate : fee_rates]
  \cup [refund : refunds, declined : {FALSE}, pending : {TRUE}, days : 3..7,
        fee_rate : fee_rates]
  \cup [refund : refunds, declined : {FALSE}, pending : {FALSE}, days : 1..3,
        fee_rate : fee_rates]

\* random.uniform(0.015, 0.035): both ends and values between
FeeRateSamples == {15, 16, 25, 34, 35}

AllTransactionDraws == TransactionDraws(BOOLEAN, FeeRateSamples)

\* one outcome: an approved sale settled the next day at 2.5%
PlainTransactionDraws ==
  {d \in TransactionDraws({FALSE}, {25}) : ~d.declined /\ ~d.pending /\ d.days = 1}

\* generate_transaction_time: period, then hour within it
TimeDraws(periods, minutes, seconds) ==
  UNION {[period : {p}, hour : PeriodHours[p], minute : minutes, second : seconds]
         : p \in periods}

PlainTimeDraws == {d \in TimeDraws({"afternoon"}, {30}, {0}) : d.hour = 12}

\* select_merchant_and_mcc
SelectDraws(mccs, first_choices, merchant_list) ==
  UNION {[selected_mcc : {c},
          merchant : first_choices,
          preferred : IF PreferredMerchants(c, merchant_list) # {}
                      THEN PreferredMerchants(c, merchant_list)
                      ELSE {None}]
         : c \in mccs}

\* generate_transaction_amount: normalvariate below, inside and above the
\* clamp; the multiplier at both ends of its range; the boost at both ends
NormalSamples == {-Dollars(12, 34), Dollars(47, 11), Dollars(2500, 0)}
BoostSamples == {11, 14}

AmountDraws(mcc, now, normals, ends) ==
  [normal : normals,
   multiplier : {MultiplierRange(mcc)[e] : e \in ends},
   boost : IF Weekday(now) \in {4, 5} THEN BoostSamples ELSE {0}]

\* generate_card_data
SecondDigits(card_type) ==
  IF card_type = "MasterCard" THEN {"1", "5"}
  ELSE IF card_type = "American Express" THEN {"4", "7"}
  ELSE {None}

\* streams of fifteen digits: one digit repeated, and the digits in turn
DigitStreams ==
  {[i \in 1..15 |-> d] : d \in {"0", "9"}}
  \cup {<<"1", "2", "3", "4", "5", "6", "7", "8", "9", "0", "1", "2", "3", "4", "5">>}

CardDrawsOf(card_types, streams) ==
  UNION {[card_type : {t}, second : SecondDigits(t), digits : streams] : t \in card_types}

CardDraws == CardDrawsOf(Range(CARD_TYPES), DigitStreams)
PlainCardDraws == CardDrawsOf({"Visa"}, {[i \in 1..15 |-> "0"]})

\* create_spending_profile
RecurringAmountSamples ==
  {Dollars(5, 0), Dollars(15, 99), Dollars(47, 12) + 3, Dollars(100, 0)}

RecurringDraws(recurring_merchants, amounts, day_set) ==
  [merchant : recurring_merchants, amount : amounts, day_of_month : day_set]

\* random.sample(population, k): the first k codes of the population from
\* position `first` on, wrapping around
SampleFrom(population, first, k) ==
  {population[((first + i - 1) % Len(population)) + 1] : i \in 0..(k - 1)}

\* variant: the population of the second sample is every code
CodesWithNoneTaken(taken) == MCC_CODES

\* MCC_CODES.keys() without the codes of `taken`, in order
CodesWithout(taken) == SelectSeq(MCC_CODES, LAMBDA mcc : mcc \notin taken)

\* the two samples: 3 to 5 primary codes, 5 to 10 of the others
CategorySamples(firsts, primary_sizes, secondary_sizes) ==
  UNION {[primary_categories : {SampleFrom(MCC_CODES, f, k)},
          secondary_categories :
            {SampleFrom(CodesWithout(SampleFrom(MCC_CODES, f, k)), f, n) :
               n \in secondary_sizes}]
         : f \in firsts, k \in primary_sizes}

\* the random() of every category: one value for the primary codes, one
\* for the others, or one per position parity
UniformPatterns(samples) ==
  {[mcc \in Range(MCC_CODES) |-> IF mcc \in c.primary_categories THEN a ELSE b]
     : c \in samples, a \in {0, UnitSteps}, b \in {0, UnitSteps}}
  \cup {[mcc \in Range(MCC_CODES) |->
           LET i == CHOOSE j \in DOMAIN MCC_CODES : MCC_CODES[j] = mcc
           IN ((i + a) % 2) * (UnitSteps \div 2) + ((i + a + 1) % 2) * UnitSteps]
          : a \in {0, 1}}

TimeUniforms(values) ==
  [morning : values, afternoon : values, evening : values, night : values]

PlainSample == CHOOSE c \in CategorySamples({1}, {3}, {5}) : TRUE

SpendingDraws(samples, patterns, time_uniforms, weekday_weights, min_amounts, max_amounts, recurring_lists) ==
  UNION {[primary_categories : {c.primary_categories},
          secondary_categories : {c.secondary_categories},
          mcc_u : patterns,
          time_u : time_uniforms,
          weekday_weight : weekday_weights,
          min_amount : min_amounts,
          max_amount : max_amounts,
          avg_amount : {Dollars(60, 0)},
          std_amount : {Dollars(30, 0)},
          recurring : recurring_lists]
         : c \in samples}

\* the draws with one outcome of the category and time-of-day weights
ProfileDraws(weekday_weights, min_amounts, max_amounts, recurring_lists) ==
  SpendingDraws({PlainSample}, {[mcc \in Range(MCC_CODES) |-> UnitSteps]},
                TimeUniforms({UnitSteps}), weekday_weights, min_amounts,
                max_amounts, recurring_lists)

(***************************************************************************)
(* The offer generator (generate_dummy_data.py).                           *)
(***************************************************************************)
\* MERCHANTS: <<category, merchants>> in insertion order, each merchant a
\* string of characters
MERCHANTS ==
  << <<"Shopping",
        <<<<"A", "m", "a", "z", "o", "n">>, <<"F", "l", "i", "p", "k", "a", "r", "t">>, <<"M", "y", "n", "t", "r", "a">>, <<"A", "j", "i", "o">>, <<"N", "y", "k", "a", "a">>, <<"T", "a", "t", "a", " ", "C", "L", "i", "Q">>, <<"M", "e", "e", "s", "h", "o">>, <<"S", "n", "a", "p", "d", "e", "a", "l">>, <<"R", "e", "l", "i", "a", "n", "c", "e", " ", "D", "i", "g", "i", "t", "a", "l">>, <<"C", "r", "o", "m", "a">>>> >>,
     <<"Food & Dining",
        <<<<"S", "w", "i", "g", "g", "y">>, <<"Z", "o", "m", "a", "t", "o">>, <<"E", "a", "t", "S", "u", "r", "e">>, <<"D", "o", "m", "i", "n", "o", "'", "s">>, <<"M", "c", "D", "o", "n", "a", "l", "d", "'", "s">>, <<"P", "i", "z", "z", "a", " ", "H", "u", "t">>, <<"K", "F", "C">>, <<"D", "u", "n", "k", "i", "n", "'", " ", "D", "o", "n", "u", "t", "s">>, <<"S", "t", "a", "r", "b", "u", "c", "k", "s">>, <<"B", "u", "r", "g", "e", "r", " ", "K", "i", "n", "g">>>> >>,
     <<"Grocery",
        <<<<"B", "i", "g", "B", "a", "s", "k", "e", "t">>, <<"G", "r", "o", "f", "e", "r", "s">>, <<"J", "i", "o", "M", "a", "r", "t">>, <<"N", "a", "t", "u", "r", "e", "'", "s", " ", "B", "a", "s", "k", "e", "t">>, <<"D", "M", "a", "r", "t">>, <<"S", "p", "e", "n", "c", "e", "r", "'", "s">>, <<"R", "e", "l", "i", "a", "n", "c", "e", " ", "F", "r", "e", "s", "h">>, <<"M", "o", "r", "e">>, <<"Z", "e", "p", "t", "o">>, <<"B", "l", "i", "n", "k", "I", "t">>>> >>,
     <<"Travel",
        <<<<"M", "a", "k", "e", "M", "y", "T", "r", "i", "p">>, <<"G", "o", "i", "b", "i", "b", "o">>, <<"C", "l", "e", "a", "r", "t", "r", "i", "p">>, <<"E", "a", "s", "e", "M", "y", "T", "r", "i", "p">>, <<"Y", "a", "t", "r", "a">>, <<"I", "R", "C", "T", "C">>, <<"B", "o", "o", "k", "i", "n", "g", ".", "c", "o", "m">>, <<"A", "g", "o", "d", "a">>, <<"O", "y", "o">>, <<"I", "x", "i", "g", "o">>>> >>,
     <<"Entertainment",
        <<<<"B", "o", "o", "k", "M", "y", "S", "h", "o", "w">>, <<"P", "V", "R">>, <<"I", "N", "O", "X">>, <<"N", "e", "t", "f", "l", "i", "x">>, <<"A", "m", "a", "z", "o", "n", " ", "P", "r", "i", "m", "e">>, <<"D", "i", "s", "n", "e", "y", "+", " ", "H", "o", "t", "s", "t", "a", "r">>, <<"S", "o", "n", "y", "L", "I", "V">>, <<"Z", "E", "E", "5">>, <<"G", "a", "a", "n", "a">>, <<"S", "p", "o", "t", "i", "f", "y">>>> >>,
     <<"Electronics",
        <<<<"S", "a", "m", "s", "u", "n", "g">>, <<"A", "p", "p", "l", "e">>, <<"O", "n", "e", "P", "l", "u", "s">>, <<"X", "i", "a", "o", "m", "i">>, <<"L", "e", "n", "o", "v", "o">>, <<"D", "e", "l", "l">>, <<"H", "P">>, <<"B", "o", "a", "t">>, <<"J", "B", "L">>, <<"S", "o", "n", "y">>>> >>,
     <<"Fashion",
        <<<<"H", "&", "M">>, <<"Z", "A", "R", "A">>, <<"L", "e", "v", "i", "'", "s">>, <<"N", "i", "k", "e">>, <<"A", "d", "i", "d", "a", "s">>, <<"P", "u", "m", "a">>, <<"P", "a", "n", "t", "a", "l", "o", "o", "n", "s">>, <<"L", "i", "f", "e", "s", "t", "y", "l", "e">>, <<"W", "e", "s", "t", "s", "i", "d", "e">>, <<"F", "a", "b", "i", "n", "d", "i", "a">>>> >>,
     <<"Beauty",
        <<<<"L", "a", "k", "m", "e">>, <<"M", "A", "C">>, <<"F", "o", "r", "e", "s", "t", " ", "E", "s", "s", "e", "n", "t", "i", "a", "l", "s">>, <<"K", "a", "m", "a", " ", "A", "y", "u", "r", "v", "e", "d", "a">>, <<"T", "h", "e", " ", "B", "o", "d", "y", " ", "S", "h", "o", "p">>, <<"L", "'", "O", "r", "e", "a", "l">>, <<"M", "a", "y", "b", "e", "l", "l", "i", "n", "e">>, <<"S", "u", "g", "a", "r">>, <<"B", "i", "o", "t", "i", "q", "u", "e">>, <<"M", "a", "m", "a", "e", "a", "r", "t", "h">>>> >>,
     <<"Home",
        <<<<"I", "K", "E", "A">>, <<"H", "o", "m", "e", " ", "C", "e", "n", "t", "r", "e">>, <<"U", "r", "b", "a", "n", " ", "L", "a", "d", "d", "e", "r">>, <<"P", "e", "p", "p", "e", "r", "f", "r", "y">>, <<"H", "o", "m", "e", "t", "o", "w", "n">>, <<"G", "o", "d", "r", "e", "j", " ", "I", "n", "t", "e", "r", "i", "o">>, <<"@", "h", "o", "m", "e">>, <<"N", "i", "l", "k", "a", "m", "a", "l">>, <<"H", "o", "m", "e", "T", "o", "w", "n">>, <<"S", "l", "e", "e", "p", "w", "e", "l", "l">>>> >>,
     <<"Pharmacy",
        <<<<"P", "h", "a", "r", "m", "e", "a", "s", "y">>, <<"1", "m", "g">>, <<"N", "e", "t", "m", "e", "d", "s">>, <<"A", "p", "o", "l", "l", "o", " ", "P", "h", "a", "r", "m", "a", "c", "y">>, <<"M", "e", "d", "P", "l", "u", "s">>, <<"W", "e", "l", "l", "n", "e", "s", "s", " ", "F", "o", "r", "e", "v", "e", "r">>, <<"P", "r", "a", "c", "t", "o">>, <<"H", "e", "a", "l", "t", "h", "k", "a", "r", "t">>, <<"T", "a", "t", "a", " ", "1", "m", "g">>, <<"Z", "e", "n", "o", " ", "H", "e", "a", "l", "t", "h">>>> >> >>

OFFER_TYPES ==
  <<"discount", "cashback", "buy_one_get_one", "reward_points", "free_delivery", "flash_sale", "bundle_offer", "first_purchase", "limited_time", "clearance_sale">>

\* the branches with the percent of a plain discount left to a coin
discount_fields_optional_percent(offer_type, rnd) ==
  IF offer_type = "discount"
  THEN <<IF rnd.first THEN rnd.percent ELSE None, None, rnd.min_purchase>>
  ELSE IF offer_type = "buy_one_get_one"
  THEN <<rnd.percent, None, None>>
  ELSE <<None, None, None>>

\* lines 174-211: <<discount_percent, discount_value, min_purchase>>, each None
\* or <<number>>.  rnd.first and rnd.second are the outcomes of the
\* `random.random() < p` tests of the branch in the order they run;
\* rnd.percent, rnd.value and rnd.min_purchase the random.choice results.
discount_fields(offer_type, rnd) ==
  IF offer_type \in {"discount", "flash_sale", "clearance_sale"}
  THEN <<rnd.percent, None, IF rnd.first THEN rnd.min_purchase ELSE None>>
  ELSE IF offer_type = "cashback"
  THEN <<IF rnd.first THEN rnd.percent ELSE None,
         IF rnd.first THEN None ELSE rnd.value,
         rnd.min_purchase>>
  ELSE IF offer_type \in {"free_delivery", "first_purchase"}
  THEN <<IF offer_type = "first_purchase" /\ rnd.second THEN rnd.percent ELSE None,
         IF offer_type = "first_purchase" /\ ~rnd.second THEN rnd.value ELSE None,
         IF rnd.first THEN rnd.min_purchase ELSE None>>
  ELSE IF offer_type = "buy_one_get_one"
  THEN <<None, None, None>>
  ELSE IF offer_type = "reward_points"
  THEN <<None, None, None>>
  ELSE IF offer_type = "bundle_offer"
  THEN <<IF rnd.first THEN rnd.percent ELSE None, None, rnd.min_purchase>>
  ELSE <<None, None, None>>

\* the window with the end offset counted back from days_to_add
validity_window_end_back(today, rnd) ==
  <<today + Max(-30, rnd.days_to_add - rnd.start_offset),
    today + (rnd.days_to_add - rnd.end_offset)>>

\* lines 163-166: <<valid_from, valid_until>>
validity_window(today, rnd) ==
  <<today + Max(-30, rnd.days_to_add - rnd.start_offset),
    today + (rnd.days_to_add + rnd.end_offset)>>

\* Python's truth of an optional number: None and 0 are false
TruthyNumber(x) == x # None /\ x # <<0>>

\* variant: the cashback text always formats discount_percent
generate_description_percent(offer_type, discount_percent, discount_value, min_purchase) ==
  [discount |-> IF offer_type \in {"discount", "cashback", "first_purchase"}
                THEN <<discount_percent>> ELSE <<>>,
   min_purchase |-> <<>>]

\* generate_description, lines 55-97: the arguments the f-string of the
\* branch formats into the text, in order (None is formatted as "None").
\* discount: the discount fields; min_purchase: the minimum purchase.  The
\* literal text, the merchant, the category and the numbers drawn inside
\* the function are left out.
generate_description(offer_type, discount_percent, discount_value, min_purchase) ==
  LET minimum == IF TruthyNumber(min_purchase) THEN <<min_purchase>> ELSE <<>>
  IN IF offer_type = "discount"
     THEN [discount |-> <<discount_percent>>, min_purchase |-> minimum]
     ELSE IF offer_type = "cashback"
     THEN [discount |-> IF TruthyNumber(discount_value)
                        THEN <<discount_value>> ELSE <<discount_percent>>,
           min_purchase |-> minimum]
     ELSE IF offer_type = "free_delivery"
     THEN [discount |-> <<>>, min_purchase |-> minimum]
     ELSE IF offer_type = "first_purchase"
     THEN [discount |-> IF TruthyNumber(discount_percent)
                        THEN <<discount_percent>> ELSE <<discount_value>>,
           min_purchase |-> minimum]
     ELSE [discount |-> <<>>, min_purchase |-> <<>>]

\* one pass of the loop of generate_dummy_data: the offer record (the terms,
\* the coupon code and the affiliate link are left out)
\* f"{merchant[:3].upper()}{offer_id}", offer_id = str(uuid.uuid4())[:8].upper()
offer_id_of(merchant, uuid_str) ==
  Capitals(SubSeq(merchant, 1, Min(3, Len(merchant))))
    \o Capitals(SubSeq(uuid_str, 1, 8))

generate_offer(today, rnd) ==
  LET category == MERCHANTS[rnd.category][1]
      merchant == MERCHANTS[rnd.category][2][rnd.merchant]
      window == validity_window(today, rnd)
      fields == discount_fields(rnd.offer_type, rnd)
  IN [offer_id |-> offer_id_of(merchant, rnd.uuid),
      merchant |-> merchant,
      category |-> category,
      type |-> rnd.offer_type,
      discount_percent |-> fields[1],
      discount_value |-> fields[2],
      minimum_purchase |-> fields[3],
      description |-> generate_description(rnd.offer_type, fields[1], fields[2], fields[3]),
      valid_from |-> window[1],
      valid_until |-> window[2]]

\* str(uuid.uuid4()) of two draws, up to the first hyphen
UuidStrings ==
  << <<"3","f","2","a","9","c","1","e","-">>, <<"0","b","7","d","4","4","a","0","-">> >>

\* the choice lists of each branch, and the draws a pass makes
Some(S) == {<<x>> : x \in S}

PercentChoices(offer_type) ==
  CASE offer_type \in {"discount", "flash_sale", "clearance_sale"}
         -> {10, 15, 20, 25, 30, 40, 50, 60, 70}
    [] offer_type = "cashback" -> {5, 10, 15, 20, 25}
    [] offer_type = "first_purchase" -> {10, 15, 20, 25, 30}
    [] offer_type = "bundle_offer" -> {5, 10, 15, 20, 25, 30}
    [] OTHER -> {}

ValueChoices(offer_type) ==
  CASE offer_type = "cashback" -> {50, 100, 150, 200, 250, 300, 500}
    [] offer_type = "first_purchase" -> {100, 150, 200, 250, 300}
    [] OTHER -> {}

MinPurchaseChoices(offer_type) ==
  CASE offer_type \in {"discount", "flash_sale", "clearance_sale"}
         -> {499, 999, 1499, 1999, 2499, 2999, 4999}
    [] offer_type = "cashback" -> {499, 999, 1499, 1999, 2499}
    [] offer_type \in {"free_delivery", "first_purchase"} -> {299, 499, 699, 999, 1499}
    [] offer_type = "bundle_offer" -> {999, 1499, 1999, 2499, 2999}
    [] OTHER -> {}

\* a choice that the branch taken does not make is left as None
OrNone(S) == IF S = {} THEN {None} ELSE Some(S)

OfferDraws(categories, merchant_indexes, days_to_add, start_offsets, end_offsets, offer_types) ==
  UNION {[category : categories,
          merchant : merchant_indexes,
          days_to_add : days_to_add,
          start_offset : start_offsets,
          end_offset : end_offsets,
          offer_type : {t},
          first : IF t \in {"buy_one_get_one", "reward_points", "limited_time"}
                  THEN {FALSE} ELSE BOOLEAN,
          second : IF t = "first_purchase" THEN BOOLEAN ELSE {FALSE},
          percent : OrNone(PercentChoices(t)),
          value : OrNone(ValueChoices(t)),
          min_purchase : OrNone(MinPurchaseChoices(t)),
          uuid : {UuidStrings[1]}]
         : t \in offer_types}

\* the same draws with each of the uuid4 values
WithUuids(draws) == {[d EXCEPT !.uuid = u] : d \in draws, u \in Range(UuidStrings)}

VARIABLES
  offer_pc,     \* the statement of generate_dummy_data about to run
  today,        \* datetime.datetime.now().date()
  num_offers,   \* the passes of the loop (NUM_OFFERS, 10000 in the program)
  data,         \* generate_dummy_data: data
  conn,         \* create_database: the state of the sqlite3 connection
  offers,       \* the rows of table offers in the database file, None
                \* while the file has no such table
  offers_before,\* history: the table when create_database was called
  db_printed    \* the count printed by create_database

db_vars == <<conn, offers, offers_before, db_printed>>
offer_vars == <<offer_pc, today, num_offers, data, db_vars>>


(***************************************************************************)
(* The simple generator (generate_transactions.py).  Its names carry the   *)
(* prefix simple_ where the other generator has a definition of the same   *)
(* name.                                                                   *)
(***************************************************************************)
\* MCC_CODES.keys(), in insertion order
simple_MCC_CODES ==
  <<"5411", "5542", "5812", "5814", "5912", "5311", "5699", "7832", "5732", "4899">>

simple_MERCHANTS ==
  [c \in Range(simple_MCC_CODES) |->
     CASE c = "5411" -> <<"Kroger", "Walmart", "Safeway", "Whole Foods", "Aldi">>
       [] c = "5542" -> <<"Shell", "Exxon", "BP", "Chevron", "Marathon">>
       [] c = "5812" -> <<"Olive Garden", "Chili's", "Applebee's", "Outback", "Cheesecake Factory">>
       [] c = "5814" -> <<"McDonald's", "Burger King", "Subway", "Taco Bell", "Starbucks">>
       [] c = "5912" -> <<"CVS", "Walgreens", "Rite Aid", "Duane Reade">>
       [] c = "5311" -> <<"Target", "Macy's", "Kohl's", "JCPenney", "Nordstrom">>
       [] c = "5699" -> <<"H&M", "Zara", "Gap", "Old Navy", "Nike">>
       [] c = "7832" -> <<"AMC Theaters", "Regal Cinemas", "Cinemark", "IMAX">>
       [] c = "5732" -> <<"Best Buy", "Apple Store", "GameStop", "Microsoft Store">>
       [] c = "4899" -> <<"Comcast", "AT&T", "Verizon", "T-Mobile", "Dish Network">>]

DigitChars == <<"0", "1", "2", "3", "4", "5", "6", "7", "8", "9">>

\* f"{i:06d}" for i below 10^6
ZeroPad6(i) == [k \in 1..6 |-> DigitChars[((i \div (10 ^ (6 - k))) % 10) + 1]]

\* int(s) for a string of digits
DigitValue(c) == (CHOOSE k \in DOMAIN DigitChars : DigitChars[k] = c) - 1

RECURSIVE ParseInt(_)
ParseInt(s) ==
  IF s = <<>> THEN 0
  ELSE 10 * ParseInt(SubSeq(s, 1, Len(s) - 1)) + DigitValue(s[Len(s)])

\* f"CUST{i:06d}"
simple_customer_id(i) == <<"C", "U", "S", "T">> \o ZeroPad6(i)

\* lines 68-75: the masked card number, generated as such.  rnd.digits is
\* the stream of random.randint(0, 9) digits: three after the network
\* digit, then three or four at the end
simple_card_number(card_type, rnd) ==
  IF card_type = "Visa"
  THEN <<"4">> \o SubSeq(rnd.digits, 1, 3) \o Redaction \o SubSeq(rnd.digits, 4, 7)
  ELSE IF card_type = "MasterCard"
  THEN <<"5">> \o SubSeq(rnd.digits, 1, 3) \o Redaction \o SubSeq(rnd.digits, 4, 7)
  ELSE IF card_type = "American Express"
  THEN <<"3">> \o SubSeq(rnd.digits, 1, 3) \o Redaction \o SubSeq(rnd.digits, 4, 6)
  ELSE <<"6">> \o SubSeq(rnd.digits, 1, 3) \o Redaction \o SubSeq(rnd.digits, 4, 7)

\* lines 101-117: the range of the amount of a category, in dollars
simple_amount_range(category) ==
  CASE category \in {"5411", "5311"} -> <<15, 200>>
    [] category = "5542" -> <<20, 60>>
    [] category = "5812" -> <<25, 150>>
    [] category = "5814" -> <<5, 30>>
    [] category = "7832" -> <<10, 50>>
    [] category = "5732" -> <<50, 1000>>
    [] category = "4899" -> <<50, 200>>
    [] OTHER -> <<10, 100>>

\* lines 93-142: one transaction record (the uuid and the Faker name are left
\* out).  rnd.favorite
\* is random.random() < 0.7, rnd.category the random.choice that follows,
\* rnd.merchant the index chosen in the category's merchants, rnd.amount_u
\* the random() behind random.uniform, rnd.time the three randint
simple_transaction(customer_id, current_date, card, rnd) ==
  LET category == rnd.category
      merchant == simple_MERCHANTS[category][rnd.merchant]
      range == simple_amount_range(category)
      amount == Round2(Uniform(Dollars(range[1], 0), Dollars(range[2], 0), rnd.amount_u), 1)
  IN [customer_id |-> customer_id,
      transaction_date |-> Strftime(current_date),
      transaction_time |-> rnd.time,
      merchant_name |-> merchant,
      merchant_category_code |-> category,
      transaction_amount |-> amount,
      card_type |-> card.card_type,
      card_number |-> card.card_number,
      transaction_type |-> "Sale",
      transaction_status |-> "Approved"]

\* the keys of a record, the header line of the CSV file
simple_fieldnames ==
  <<"transaction_id", "customer_id", "customer_name", "transaction_date",
    "transaction_time", "merchant_name", "merchant_category_code",
    "transaction_amount", "card_type", "card_number", "transaction_type",
    "transaction_status">>

SimpleCardDraws(card_types, streams) == [card_type : card_types, digits : streams]

SimpleTransactionDraws(favorites, categories, amount_us, times) ==
  UNION {[favorite : {f},
          category : IF f THEN {c \in categories : c \in favorites} ELSE categories,
          merchant : {1, 4},
          amount_u : amount_us,
          time : times]
         : f \in BOOLEAN}

VARIABLES
  simple_pc,            \* the statement of generate_transactions.py about to run
  simple_start,         \* START_DATE
  simple_days,          \* (END_DATE - START_DATE).days
  num_customers,        \* NUM_CUSTOMERS (1003 in the program)
  simple_transactions,  \* generate_transactions: transactions
  simple_i,             \* generate_transactions: i
  simple_card,          \* card_type and card_number of customer i
  favorite_categories,  \* generate_transactions: favorite_categories
  simple_day,           \* generate_transactions: day
  simple_left,          \* passes left of `for _ in range(num_transactions)`
  counts,               \* <<customer_count, transaction_count>>
  printed,              \* the counts print() reported, in order
  csvfile               \* OUTPUT_FILE: None while absent, else <<its lines>>

simple_run_vars == <<simple_start, simple_days, num_customers>>
simple_loop_vars == <<simple_i, simple_card, favorite_categories, simple_day, simple_left>>
simple_vars == <<simple_pc, simple_run_vars, simple_transactions, simple_loop_vars, counts, printed, csvfile>>

(***************************************************************************)
(* The state: main() of generate_transaction_csv.py and the calls it       *)
(* makes, one variable per local of the three nested functions.            *)
(***************************************************************************)
VARIABLES
  pc,                 \* the statement about to run
  now,                \* the day of the run, datetime.datetime.now()
  customer_names,     \* main: the roster, a sequence of <<id, name>>
  start_date,         \* the interval handed to generate_customer_transactions
  end_date,
  customer,           \* main: index of the customer being generated
  main_transactions,  \* main: all_transactions
  output_file,        \* the CSV file: None until written, then <<rows>>
  writes,             \* history: the number of times OUTPUT_FILE was written
  reported,           \* None, then <<n>> once `Total transactions generated: n` is printed
  profile,            \* generate_customer_transactions: profile
  card_data,          \* generate_customer_transactions: card_data
  all_transactions,   \* generate_customer_transactions: all_transactions
  day_offset,         \* generate_customer_transactions: the day loop
  num_transactions,   \* transactions still to generate for the current day
  recurring_index,    \* generate_recurring_transactions: the entry loop
  current_date,       \* generate_recurring_transactions: current_date
  transactions,       \* generate_recurring_transactions: transactions
  entry_of,           \* history: entry_of[i] is the entry that produced transactions[i]
  profiles,           \* history: the profile created for each customer so far
  samples,            \* history: the two category samples behind each profile
  card_nums           \* history: the card number behind each masked number

run_vars == <<now, customer_names, start_date, end_date>>
main_vars == <<run_vars, customer, main_transactions, output_file, writes, reported, profiles, samples, card_nums>>
customer_vars == <<profile, card_data, all_transactions, day_offset, num_transactions>>
recurring_vars == <<recurring_index, current_date, transactions, entry_of>>
vars == <<pc, main_vars, customer_vars, recurring_vars>>

\* a call of assign_mcc_to_merchant on its own
VARIABLES
  name_given,         \* assign_mcc_to_merchant: merchant_name
  assigned            \* the values the calls made so far returned

call_vars == <<name_given, assigned>>

(***************************************************************************)
(* The dashboard (app.py, customers.py, add_real_customers.py).            *)
(***************************************************************************)
\* filters.get(key) is truthy, for a text value and for a flag; a key that
\* is absent and a key bound to None are both None here
TruthyText(o) == o # None /\ o[1] # ""
TruthyChars(o) == o # None /\ o[1] # <<>>
TruthyFlag(o) == o # None /\ o[1]

Condition(present, sql, param) ==
  IF present THEN <<[sql |-> sql, param |-> param]>> ELSE <<>>

\* app.py lines 86-116: the conditions and params of load_offers_data, in
\* the order they are appended; date_str is the code's current_date,
\* datetime.now() formatted
offers_conditions(filters, date_str) ==
  IF \A k \in DOMAIN filters : filters[k] = None
  THEN <<>>
  ELSE Condition(TruthyText(filters.merchant), "merchant = ?", filters.merchant)
       \o Condition(TruthyText(filters.category), "category = ?", filters.category)
       \o Condition(TruthyText(filters.type), "type = ?", filters.type)
       \o Condition(filters.min_discount # None, "discount_percent >= ?", filters.min_discount)
       \o Condition(filters.max_discount # None, "discount_percent <= ?", filters.max_discount)
       \o Condition(TruthyFlag(filters.active_only), "valid_until >= ?", <<date_str>>)

\* app.py lines 138-153, customers.py lines 147-162: f"%{customer_name}%"
customers_conditions(filters) ==
  IF \A k \in DOMAIN filters : filters[k] = None
  THEN <<>>
  ELSE Condition(TruthyChars(filters.customer_name), "customer_name LIKE ?",
                 IF filters.customer_name = None THEN None
                 ELSE <<<<"%">> \o filters.customer_name[1] \o <<"%">>>>)
       \o Condition(TruthyText(filters.mobile_type), "mobile_type = ?", filters.mobile_type)

\* SQLite's LIKE with a pattern %k% (k without wildcards): k occurs in the
\* text, letters compared without regard to case
Like(text, pattern) ==
  Contains(Lower(text), Lower(SubSeq(pattern, 2, Len(pattern) - 1)))

\* a row satisfies one condition with the value bound to its placeholder; a
\* comparison with NULL is not true
Holds(row, sql, value) ==
  CASE sql = "merchant = ?" -> row.merchant = value
    [] sql = "category = ?" -> row.category = value
    [] sql = "type = ?" -> row.type = value
    [] sql = "discount_percent >= ?" ->
         row.discount_percent # None /\ row.discount_percent[1] >= value
    [] sql = "discount_percent <= ?" ->
         row.discount_percent # None /\ row.discount_percent[1] <= value
    [] sql = "valid_until >= ?" -> ~DateStrLess(row.valid_until, value)
    [] sql = "customer_name LIKE ?" -> Like(row.customer_name, value)
    [] sql = "mobile_type = ?" -> row.mobile_type = value

\* cursor.execute(query, bound) over the rows of the table: sqlite3 raises
\* ProgrammingError ("Incorrect number of bindings supplied") unless every
\* '?' of the statement has a value
execute_select(rows, conditions, bound) ==
  IF Len(conditions) # Len(bound)
  THEN [raised |-> TRUE, rows |-> <<>>]
  ELSE [raised |-> FALSE,
        rows |-> SelectSeq(rows, LAMBDA r :
                   \A i \in DOMAIN conditions : Holds(r, conditions[i].sql, bound[i]))]

\* the params list the function has built when it runs the query
params_of(conditions) == [i \in DOMAIN conditions |-> conditions[i].param[1]]

\* app.py line 118: return pd.read_sql_query(query, _conn): the query is
\* run with no parameters
load_offers_data(rows, filters, date_str) ==
  execute_select(rows, offers_conditions(filters, date_str), <<>>)

\* app.py line 155: the same call for the customers table
load_customers_data(rows, filters) ==
  execute_select(rows, customers_conditions(filters), <<>>)

\* customers.py lines 146-167: the same, inside try/except Exception: the
\* error is shown (st.error) and an empty frame returned
customers_load_customers_data(rows, filters) ==
  LET tried == execute_select(rows, customers_conditions(filters), <<>>)
  IN IF tried.raised
     THEN [raised |-> FALSE, rows |-> <<>>, shown |-> TRUE]
     ELSE [raised |-> FALSE, rows |-> tried.rows, shown |-> FALSE]

\* SQLite compares TEXT values byte by byte (BINARY collation): a is less
\* than b at the first character that differs, or when a is a proper prefix
\* of b.  The strings compared here are strings of digits.
TextLess(a, b) ==
  \E i \in 1..(Min(Len(a), Len(b)) + 1) :
    /\ SubSeq(a, 1, i - 1) = SubSeq(b, 1, i - 1)
    /\ \/ i > Len(a) /\ i <= Len(b)
       \/ i <= Len(a) /\ i <= Len(b) /\ DigitValue(a[i]) < DigitValue(b[i])

\* SELECT MAX(SUBSTR(customer_id, 5)) FROM customers: NULL for no row
max_substr_customer_id(rows) ==
  IF rows = <<>> THEN None
  ELSE LET texts == {SubSeq(rows[i].customer_id, 5, Len(rows[i].customer_id)) : i \in DOMAIN rows}
       IN <<CHOOSE m \in texts : \A x \in texts : ~TextLess(m, x)>>

\* str(n) for n >= 0
RECURSIVE DecimalDigits(_)
DecimalDigits(n) ==
  IF n < 10 THEN <<DigitChars[n + 1]>>
  ELSE Append(DecimalDigits(n \div 10), DigitChars[(n % 10) + 1])

\* f"{n:06d}": at least six digits
Format06d(n) ==
  LET d == DecimalDigits(n)
  IN [i \in 1..(6 - Len(d)) |-> "0"] \o d

\* customers.py lines 189-212 (app.py lines 166-183 and
\* add_real_customers.py lines 8-23 are the same statements): the new
\* identifier from the greatest SUBSTR text, then the INSERT, which raises
\* sqlite3.IntegrityError when the identifier is in the table already
\* (customer_id TEXT PRIMARY KEY)
add_real_customer(rows, name, mobile_type) ==
  LET max_id_result == max_substr_customer_id(rows)
      max_id == IF max_id_result = None THEN 0 ELSE ParseInt(max_id_result[1])
      new_id == max_id + 1
      id == <<"C", "U", "S", "T">> \o Format06d(new_id)
  IN IF \E i \in DOMAIN rows : rows[i].customer_id = id
     THEN [raised |-> TRUE, returned |-> None, rows |-> rows]
     ELSE [raised |-> FALSE, returned |-> <<id>>,
           rows |-> Append(rows, [customer_id |-> id, customer_name |-> name,
                                  mobile_type |-> mobile_type])]

VARIABLES
  app_pc,          \* "not run", or "serving" while the dashboard answers calls
  app_today,       \* datetime.now() of the dashboard
  offers_rows,     \* table offers as the dashboard reads it
  customers_rows,  \* table customers
  app_call,        \* history: the last call made, None before the first
  app_result       \* what the last call returned or raised

app_vars == <<app_pc, app_today, offers_rows, customers_rows, app_call, app_result>>

\* what the steps of each program leave alone
frame_csv == <<offer_vars, call_vars, simple_vars, app_vars>>
frame_offer == <<vars, call_vars, simple_vars, app_vars>>
frame_call == <<vars, offer_vars, simple_vars, app_vars>>
frame_simple == <<vars, offer_vars, call_vars, app_vars>>
frame_app == <<vars, offer_vars, call_vars, simple_vars>>
all_vars == <<vars, offer_vars, call_vars, simple_vars, app_vars>>

\* main: merchants = get_merchants(), handed unchanged to every call
merchants == get_merchants

customer_id == customer_names[customer][1]
customer_name == customer_names[customer][2]
recurring == profile.recurring_transactions[recurring_index]

(***************************************************************************)
(* generate_recurring_transactions                                         *)
(***************************************************************************)
\* for recurring in profile['recurring_transactions']: move to the first occurrence
RecurringSeek ==
  /\ pc = "recurring_for"
  /\ recurring_index <= Len(profile.recurring_transactions)
  /\ current_date' = first_occurrence(start_date, recurring.day_of_month)
  /\ pc' = "recurring_while"
  /\ UNCHANGED <<frame_csv, main_vars, customer_vars, recurring_index, transactions, entry_of>>

\* variant: the end date itself is excluded
recurring_due_strict == current_date < end_date

\* the loop condition `while current_date <= end_date`
recurring_due == current_date <= end_date

\* one pass of the while loop: emit, move a month on, adjust
RecurringEmit(time_draws, transaction_draws) ==
  /\ pc = "recurring_while"
  /\ recurring_due
  /\ \E t \in time_draws, r \in transaction_draws :
       LET transaction ==
             generate_transaction(customer_id, customer_name, recurring.merchant,
                                  recurring.mcc, current_date,
                                  generate_transaction_time(current_date, profile, t),
                                  recurring.amount, card_data, r)
       IN /\ transactions' = Append(transactions, transaction)
          /\ entry_of' = Append(entry_of, recurring_index)
  /\ current_date' = next_occurrence(current_date, recurring.day_of_month, end_date)
  /\ UNCHANGED <<frame_csv, pc, main_vars, customer_vars, recurring_index>>

\* variant: the loop is not left when its condition fails
RecurringNextStay ==
  /\ pc = "recurring_while"
  /\ ~recurring_due
  /\ UNCHANGED <<frame_csv, pc, main_vars, customer_vars, recurring_vars>>

\* the while loop ends: on to the next entry
RecurringNext ==
  /\ pc = "recurring_while"
  /\ ~recurring_due
  /\ recurring_index' = recurring_index + 1
  /\ pc' = "recurring_for"
  /\ UNCHANGED <<frame_csv, main_vars, customer_vars, current_date, transactions, entry_of>>

\* return transactions; the caller extends all_transactions with them
RecurringReturn ==
  /\ pc = "recurring_for"
  /\ recurring_index > Len(profile.recurring_transactions)
  /\ all_transactions' = all_transactions \o transactions
  /\ day_offset' = 0
  /\ pc' = "day_for"
  /\ UNCHANGED <<frame_csv, main_vars, profile, card_data, num_transactions, recurring_vars>>

(***************************************************************************)
(* generate_customer_transactions                                          *)
(***************************************************************************)
\* profile, card data, then the call of generate_recurring_transactions
CustomerStart(profile_draws, card_draws) ==
  /\ pc = "customer_call"
  /\ \E p \in profile_draws :
       /\ profile' = create_spending_profile(p)
       /\ samples' = Append(samples, [primary_categories |-> p.primary_categories,
                                      secondary_categories |-> p.secondary_categories,
                                      total_weight |->
                                        SumSeq(raw_mcc_preference(p), MCC_CODES, Len(MCC_CODES)),
                                      total_time_weight |->
                                        SumSeq(raw_time_preferences(p), TIME_KEYS, Len(TIME_KEYS))])
  /\ profiles' = Append(profiles, profile')
  /\ \E c \in card_draws :
       /\ card_data' = generate_card_data(customer_id, c)
       /\ card_nums' = Append(card_nums, card_num_of(c))
  /\ all_transactions' = <<>>
  /\ recurring_index' = 1
  /\ transactions' = <<>>
  /\ entry_of' = <<>>
  /\ pc' = "recurring_for"
  /\ UNCHANGED <<frame_csv, run_vars, customer, main_transactions, output_file, writes, reported, day_offset,
                 num_transactions, current_date>>

days == (end_date - start_date) + 1
day_date == start_date + day_offset

\* random.random() > transaction_probability * 0.8 can come out either way
\* exactly when the product lies strictly between 0 and 1
transaction_probability ==
  IF Weekday(day_date) >= 5 THEN profile.weekend_weight ELSE profile.weekday_weight
MaySkip == transaction_probability * 8 < 10000
MayTransact == transaction_probability * 8 >= 0

organic_count == Len(all_transactions) - Len(transactions)

\* a day without transactions: continue
DaySkip ==
  /\ pc = "day_for"
  /\ day_offset < days
  /\ MaySkip
  /\ day_offset' = day_offset + 1
  /\ UNCHANGED <<frame_csv, pc, main_vars, profile, card_data, all_transactions, num_transactions,
                 recurring_vars>>

\* variant: num_transactions = random.randint(1, 6)
DayStartUpToSix(max_organic) ==
  /\ pc = "day_for"
  /\ day_offset < days
  /\ MayTransact
  /\ \E n \in 1..6 :
       /\ organic_count + n <= max_organic
       /\ num_transactions' = n
  /\ pc' = "day_transaction"
  /\ UNCHANGED <<frame_csv, main_vars, profile, card_data, all_transactions, day_offset,
                 recurring_vars>>

\* a day with transactions: num_transactions = random.randint(1, 5); the model
\* follows the runs with at most max_organic organic transactions per customer
DayStart(max_organic) ==
  /\ pc = "day_for"
  /\ day_offset < days
  /\ MayTransact
  /\ \E n \in 1..5 :
       /\ organic_count + n <= max_organic
       /\ num_transactions' = n
  /\ pc' = "day_transaction"
  /\ UNCHANGED <<frame_csv, main_vars, profile, card_data, all_transactions, day_offset,
                 recurring_vars>>

\* one pass of `for _ in range(num_transactions)`
DayTransaction(mccs, first_choices, time_draws, normals, ends, transaction_draws) ==
  /\ pc = "day_transaction"
  /\ \E s \in SelectDraws(mccs, first_choices, merchants) :
       LET selected == select_merchant_and_mcc(profile, merchants, s)
           merchant == selected[1]
           mcc == selected[2]
       IN \E t \in time_draws, a \in AmountDraws(mcc, now, normals, ends),
             r \in transaction_draws :
            LET transaction_time == generate_transaction_time(day_date, profile, t)
                amount == generate_transaction_amount(profile, mcc, now, a)
                transaction ==
                  generate_transaction(customer_id, customer_name, merchant, mcc,
                                       day_date, transaction_time, amount, card_data, r)
            IN all_transactions' = Append(all_transactions, transaction)
  /\ num_transactions' = num_transactions - 1
  /\ IF num_transactions = 1
     THEN pc' = "day_for" /\ day_offset' = day_offset + 1
     ELSE UNCHANGED <<pc, day_offset>>
  /\ UNCHANGED <<frame_csv, main_vars, profile, card_data, recurring_vars>>

\* an exception raised inside generate_customer_transactions: main has no
\* handler, the run ends there
CustomerFail ==
  /\ pc \in {"customer_call", "recurring_for", "recurring_while", "day_for", "day_transaction"}
  /\ pc' = "aborted"
  /\ UNCHANGED <<frame_csv, main_vars, customer_vars, recurring_vars>>

\* variant: main writes the file after each customer
CustomerReturnWriting ==
  /\ pc = "day_for"
  /\ day_offset >= days
  /\ main_transactions' = main_transactions \o all_transactions
  /\ output_file' = <<main_transactions'>>
  /\ writes' = writes + 1
  /\ customer' = customer + 1
  /\ pc' = "main_for"
  /\ UNCHANGED <<frame_csv, run_vars, reported, profiles, samples, card_nums, customer_vars, recurring_vars>>

\* variant: main keeps only the rows of the customer just generated
CustomerReturnOverwrite ==
  /\ pc = "day_for"
  /\ day_offset >= days
  /\ main_transactions' = all_transactions
  /\ customer' = customer + 1
  /\ pc' = "main_for"
  /\ UNCHANGED <<frame_csv, run_vars, output_file, writes, reported, profiles, samples, card_nums, customer_vars, recurring_vars>>

\* return all_transactions; main extends its list and takes the next customer
CustomerReturn ==
  /\ pc = "day_for"
  /\ day_offset >= days
  /\ main_transactions' = main_transactions \o all_transactions
  /\ customer' = customer + 1
  /\ pc' = "main_for"
  /\ UNCHANGED <<frame_csv, run_vars, output_file, writes, reported, profiles, samples, card_nums, customer_vars, recurring_vars>>

(***************************************************************************)
(* main                                                                    *)
(***************************************************************************)
\* for customer_id, customer_name in customer_names.items()
MainCall ==
  /\ pc = "main_for"
  /\ customer <= Len(customer_names)
  /\ pc' = "customer_call"
  /\ UNCHANGED <<frame_csv, main_vars, customer_vars, recurring_vars>>

\* pd.DataFrame(all_transactions).to_csv(OUTPUT_FILE, index=False)
MainWrite ==
  /\ pc = "main_for"
  /\ customer > Len(customer_names)
  /\ output_file' = <<main_transactions>>
  /\ writes' = writes + 1
  /\ reported' = <<Len(main_transactions)>>
  /\ pc' = "done"
  /\ UNCHANGED <<frame_csv, run_vars, customer, main_transactions, profiles, samples, card_nums, customer_vars,
                 recurring_vars>>


(***************************************************************************)
(* generate_dummy_data                                                     *)
(***************************************************************************)
\* one pass of `for _ in tqdm(range(NUM_OFFERS))`
GenerateOffer(offer_draws) ==
  /\ offer_pc = "loop"
  /\ Len(data) < num_offers
  /\ \E rnd \in offer_draws : data' = Append(data, generate_offer(today, rnd))
  /\ UNCHANGED <<frame_offer, offer_pc, today, num_offers, db_vars>>

\* df = pd.DataFrame(data); return df
ReturnOffers ==
  /\ offer_pc = "loop"
  /\ Len(data) >= num_offers
  /\ offer_pc' = "returned"
  /\ UNCHANGED <<frame_offer, today, num_offers, data, db_vars>>

\* create_database(df): conn = sqlite3.connect(db_path)
DbConnect ==
  /\ offer_pc = "returned"
  /\ offer_pc' = "create_table"
  /\ conn' = "open"
  /\ offers_before' = offers
  /\ UNCHANGED <<frame_offer, today, num_offers, data, offers, db_printed>>

\* CREATE TABLE IF NOT EXISTS offers (...)
DbCreateTable ==
  /\ offer_pc = "create_table"
  /\ offer_pc' = "to_sql"
  /\ offers' = IF offers = None THEN <<<<>>>> ELSE offers
  /\ UNCHANGED <<frame_offer, today, num_offers, data, conn, offers_before, db_printed>>

\* if_exists='append': the rows of df are added to the rows of the table
DbToSqlAppend ==
  /\ offer_pc = "to_sql"
  /\ offer_pc' = "verify"
  /\ offers' = <<offers[1] \o data>>
  /\ UNCHANGED <<frame_offer, today, num_offers, data, conn, offers_before, db_printed>>

\* df.to_sql('offers', conn, if_exists='replace', index=False): the table is
\* dropped and created again from the frame, a row for each row of df
DbToSql ==
  /\ offer_pc = "to_sql"
  /\ offer_pc' = "verify"
  /\ offers' = <<data>>
  /\ UNCHANGED <<frame_offer, today, num_offers, data, conn, offers_before, db_printed>>

\* the four CREATE INDEX IF NOT EXISTS statements leave the rows alone;
\* SELECT COUNT(*) FROM offers; print(f"Database created with {count} offers")
DbVerify ==
  /\ offer_pc = "verify"
  /\ offer_pc' = "close"
  /\ db_printed' = <<Len(offers[1])>>
  /\ UNCHANGED <<frame_offer, today, num_offers, data, conn, offers, offers_before>>

\* a statement of create_database raises (sqlite3.Error from conn.execute,
\* to_sql or cursor.execute): no handler in create_database, so control
\* leaves it for the `except Exception` of main, which prints the error;
\* conn.close() is not reached.  A failed to_sql may have dropped the table.
DbFail ==
  /\ offer_pc \in {"create_table", "to_sql", "verify"}
  /\ offer_pc' = "error printed"
  /\ offers' \in IF offer_pc = "to_sql" THEN {offers, None} ELSE {offers}
  /\ UNCHANGED <<frame_offer, today, num_offers, data, conn, offers_before, db_printed>>

\* conn.close()
DbClose ==
  /\ offer_pc = "close"
  /\ offer_pc' = "done"
  /\ conn' = "closed"
  /\ UNCHANGED <<frame_offer, today, num_offers, data, offers, offers_before, db_printed>>


(***************************************************************************)
(* assign_mcc_to_merchant, called on its own                               *)
(***************************************************************************)
AssignCall(max_calls) ==
  /\ Len(assigned) < max_calls
  /\ assigned' = Append(assigned, assign_mcc_to_merchant(name_given))
  /\ UNCHANGED <<frame_call, name_given>>

\* a call of select_merchant_and_mcc(profile, merchants) on its own, the
\* sampled category and the list kept with what it returned
SelectCall(max_calls, mccs, merchant_lists) ==
  /\ Len(assigned) < max_calls
  /\ \E list \in merchant_lists : \E rnd \in SelectDraws(mccs, Range(list), list) :
       LET returned == select_merchant_and_mcc(None, list, rnd)
       IN assigned' = Append(assigned, [selected_mcc |-> rnd.selected_mcc,
                                        merchants |-> list,
                                        merchant |-> returned[1],
                                        actual_mcc |-> returned[2]])
  /\ UNCHANGED <<frame_call, name_given>>

\* generate_transactions.py lines 48-51: generate_customer_name(customer_id).
\* random.seed(...) sets the state of the random module; fake.name() draws
\* from the generator of the Faker instance made at import (line 9), which
\* the program never seeds: fake_draw is that draw
generate_customer_name(id, fake_draw) ==
  LET seed == ParseInt(SubSeq(id, 5, Len(id)))
  IN [customer_id |-> id, seeded |-> <<seed>>, name |-> fake_draw]

\* a call of generate_customer_name on its own
CustomerNameCall(max_calls, ids, fake_draws) ==
  /\ Len(assigned) < max_calls
  /\ \E id \in ids, n \in fake_draws :
       assigned' = Append(assigned, generate_customer_name(id, n))
  /\ UNCHANGED <<frame_call, name_given>>

\* generate_transaction_csv.py lines 526-532: generate_customer_names(), here
\* for the first roster_size identifiers: fake.name() for each, from the
\* unseeded Faker instance of line 10
CustomerNamesCall(max_calls, roster_size, fake_draws) ==
  /\ Len(assigned) + roster_size <= max_calls
  /\ \E names \in [1..roster_size -> fake_draws] :
       assigned' = assigned \o [i \in 1..roster_size |->
                                 [customer_id |-> simple_customer_id(i),
                                  seeded |-> None,
                                  name |-> names[i]]]
  /\ UNCHANGED <<frame_call, name_given>>

(***************************************************************************)
(* generate_transactions.py: generate_transactions, save_to_csv, main      *)
(***************************************************************************)
\* lines 59-78: the next customer, its card and its favorite categories
SimpleCustomer(card_draws, favorite_draws) ==
  /\ simple_pc = "customer_for"
  /\ simple_i <= num_customers
  /\ \E c \in card_draws :
       simple_card' = [card_type |-> c.card_type,
                       card_number |-> simple_card_number(c.card_type, c)]
  /\ favorite_categories' \in favorite_draws
  /\ counts' = <<counts[1] + 1, counts[2]>>
  /\ simple_day' = 0
  /\ simple_pc' = "day_for"
  /\ UNCHANGED <<frame_simple, simple_run_vars, simple_transactions, simple_i, simple_left,
                 printed, csvfile>>

\* lines 82-85: random.random() > 0.3, the day has no transaction
SimpleDaySkip ==
  /\ simple_pc = "day_for"
  /\ simple_day < simple_days
  /\ simple_day' = simple_day + 1
  /\ UNCHANGED <<frame_simple, simple_pc, simple_run_vars, simple_transactions, simple_i,
                 simple_card, favorite_categories, simple_left, counts, printed, csvfile>>

\* lines 87-90: num_transactions = random.randint(1, 5); the model follows
\* the runs of at most max_rows transactions
SimpleDayStart(max_rows) ==
  /\ simple_pc = "day_for"
  /\ simple_day < simple_days
  /\ \E n \in 1..5 :
       /\ Len(simple_transactions) + n <= max_rows
       /\ simple_left' = n
  /\ simple_pc' = "transaction"
  /\ UNCHANGED <<frame_simple, simple_run_vars, simple_transactions, simple_i, simple_card,
                 favorite_categories, simple_day, counts, printed, csvfile>>

\* lines 91-145: one pass of `for _ in range(num_transactions)`
SimpleTransaction(categories, amount_us, times) ==
  /\ simple_pc = "transaction"
  /\ \E r \in SimpleTransactionDraws(favorite_categories, categories, amount_us, times) :
       simple_transactions' =
         Append(simple_transactions,
                simple_transaction(simple_customer_id(simple_i),
                                   simple_start + simple_day, simple_card, r))
  /\ counts' = <<counts[1], counts[2] + 1>>
  /\ simple_left' = simple_left - 1
  /\ IF simple_left = 1
     THEN simple_pc' = "day_for" /\ simple_day' = simple_day + 1
     ELSE UNCHANGED <<simple_pc, simple_day>>
  /\ UNCHANGED <<frame_simple, simple_run_vars, simple_i, simple_card, favorite_categories,
                 printed, csvfile>>

\* the day loop ends: the next pass of `for i in range(1, NUM_CUSTOMERS + 1)`
SimpleCustomerDone ==
  /\ simple_pc = "day_for"
  /\ simple_day >= simple_days
  /\ simple_i' = simple_i + 1
  /\ simple_pc' = "customer_for"
  /\ UNCHANGED <<frame_simple, simple_run_vars, simple_transactions, simple_card,
                 favorite_categories, simple_day, simple_left, counts, printed, csvfile>>

\* lines 147-148: print the two counts; return transactions
SimpleReturn ==
  /\ simple_pc = "customer_for"
  /\ simple_i > num_customers
  /\ printed' = Append(printed, [transactions |-> counts[2], customers |-> counts[1]])
  /\ simple_pc' = "save_to_csv"
  /\ UNCHANGED <<frame_simple, simple_run_vars, simple_transactions, simple_loop_vars,
                 counts, csvfile>>

\* variant: the header is written before the list is looked at
SaveToCsvHeaderFirst ==
  /\ simple_pc = "save_to_csv"
  /\ csvfile' = <<<<simple_fieldnames>> \o simple_transactions>>
  /\ printed' = IF simple_transactions = <<>> THEN printed
                ELSE Append(printed, [saved |-> Len(simple_transactions)])
  /\ simple_pc' = "done"
  /\ UNCHANGED <<frame_simple, simple_run_vars, simple_transactions, simple_loop_vars, counts>>

\* lines 150-161: save_to_csv(transactions, OUTPUT_FILE).  open(filename, 'w')
\* leaves the file empty; the header and the rows are written only when
\* the list is not empty
SaveToCsv ==
  /\ simple_pc = "save_to_csv"
  /\ csvfile' = IF simple_transactions = <<>>
                THEN <<<<>>>>
                ELSE <<<<simple_fieldnames>> \o simple_transactions>>
  /\ printed' = IF simple_transactions = <<>> THEN printed
                ELSE Append(printed, [saved |-> Len(simple_transactions)])
  /\ simple_pc' = "done"
  /\ UNCHANGED <<frame_simple, simple_run_vars, simple_transactions, simple_loop_vars, counts>>

(***************************************************************************)
(* The dashboard's calls                                                   *)
(***************************************************************************)
\* df = load_offers_data(offers_conn, filters)
LoadOffers(filter_sets) ==
  /\ app_pc = "serving"
  /\ \E f \in filter_sets :
       /\ app_call' = [fn |-> "load_offers_data", filters |-> f]
       /\ app_result' = load_offers_data(offers_rows, f, Strftime(app_today))
  /\ UNCHANGED <<frame_app, app_pc, app_today, offers_rows, customers_rows>>

\* app.py: customers_df = load_customers_data(customers_conn, customer_filters)
LoadCustomers(filter_sets) ==
  /\ app_pc = "serving"
  /\ \E f \in filter_sets :
       /\ app_call' = [fn |-> "load_customers_data", filters |-> f]
       /\ app_result' = load_customers_data(customers_rows, f)
  /\ UNCHANGED <<frame_app, app_pc, app_today, offers_rows, customers_rows>>

\* customers.py: customers_df = load_customers_data(conn, customer_filters)
LoadCustomersTab(filter_sets) ==
  /\ app_pc = "serving"
  /\ \E f \in filter_sets :
       /\ app_call' = [fn |-> "customers.load_customers_data", filters |-> f]
       /\ app_result' = customers_load_customers_data(customers_rows, f)
  /\ UNCHANGED <<frame_app, app_pc, app_today, offers_rows, customers_rows>>

\* customer_id = add_real_customer(conn, customer_name, mobile_number, email,
\* mobile_type); the call is kept with the rows it found
AddRealCustomer(max_rows, names, mobile_types) ==
  /\ app_pc = "serving"
  /\ Len(customers_rows) < max_rows
  /\ \E n \in names, m \in mobile_types :
       LET result == add_real_customer(customers_rows, n, m)
       IN /\ app_call' = [fn |-> "add_real_customer", before |-> customers_rows]
          /\ app_result' = [raised |-> result.raised, returned |-> result.returned]
          /\ customers_rows' = result.rows
  /\ UNCHANGED <<frame_app, app_pc, app_today, offers_rows>>

(***************************************************************************)
(* Specifications.  Each starts the program where the operations under     *)
(* study begin and follows them with the draws its properties depend on.   *)
(***************************************************************************)
Roster ==
  << <<"CUST000001", "name 1">>, <<"CUST000002", "name 2">>, <<"CUST000003", "name 3">> >>

\* no connection made, no database file
NoDatabase ==
  /\ conn = "none"
  /\ offers = None
  /\ offers_before = None
  /\ db_printed = None

\* generate_dummy_data.py is not run
NoOffers ==
  /\ offer_pc = "not run"
  /\ today = 0
  /\ num_offers = 0
  /\ data = <<>>
  /\ NoDatabase

\* no call of assign_mcc_to_merchant on its own
NoCalls ==
  /\ name_given = <<>>
  /\ assigned = <<>>

\* generate_transactions.py is not run
NoSimple ==
  /\ simple_pc = "not run"
  /\ simple_start = 0
  /\ simple_days = 0
  /\ num_customers = 0
  /\ simple_transactions = <<>>
  /\ simple_i = 1
  /\ simple_card = None
  /\ favorite_categories = {}
  /\ simple_day = 0
  /\ simple_left = 0
  /\ counts = <<0, 0>>
  /\ printed = <<>>
  /\ csvfile = None

\* only generate_transaction_csv.py runs
\* the dashboard is not run
NoApp ==
  /\ app_pc = "not run"
  /\ app_today = 0
  /\ offers_rows = <<>>
  /\ customers_rows = <<>>
  /\ app_call = None
  /\ app_result = None

OnlyCsv == NoOffers /\ NoCalls /\ NoSimple /\ NoApp

\* nothing generated yet
Fresh ==
  /\ customer = 1
  /\ main_transactions = <<>>
  /\ output_file = None
  /\ writes = 0
  /\ reported = None
  /\ all_transactions = <<>>
  /\ day_offset = 0
  /\ recurring_index = 1
  /\ transactions = <<>>
  /\ entry_of = <<>>

\* inside the call for the only customer, whose profile is made
InFirstCall ==
  /\ customer_names = SubSeq(Roster, 1, 1)
  /\ Fresh
  /\ card_data \in {generate_card_data(customer_id, c) : c \in PlainCardDraws}
  /\ profiles = <<profile>>
  /\ samples = <<PlainSample>>
  /\ card_nums = <<CHOOSE n \in {card_num_of(c) : c \in PlainCardDraws} : TRUE>>

(* SpecRow: the body of either loop of generate_customer_transactions run   *)
(* once, on a one-day interval, with every outcome of generate_transaction. *)
RowFirstDate == ToOrdinal(2023, 12, 22)
RowDays == 12
RowDates == {RowFirstDate + k : k \in 0..(RowDays - 1)}
\* a Monday and a Friday
RowNow == {ToOrdinal(2024, 1, 8), ToOrdinal(2024, 1, 12)}

OneRecurring ==
  {<<e>> : e \in RecurringDraws(Range(RecurringMerchants), RecurringAmountSamples, 1..28)}

RowProfiles(recurring_lists) ==
  {create_spending_profile(p) :
     p \in ProfileDraws({600}, {Dollars(1, 0), Dollars(10, 0)},
                        {Dollars(500, 0), Dollars(2000, 0)}, recurring_lists)}

\* inside `while current_date <= end_date`, at the first occurrence
InitRowRecurring ==
  /\ pc = "recurring_while"
  /\ now = ToOrdinal(2024, 1, 8)
  /\ start_date \in RowDates
  /\ profile \in RowProfiles(OneRecurring)
  /\ profile.recurring_transactions[1].day_of_month = DayOf(start_date)
  /\ profile.amount_profile.min_amount = Dollars(1, 0)
  /\ profile.amount_profile.max_amount = Dollars(500, 0)
  /\ num_transactions = 0

\* inside `for _ in range(num_transactions)`, no recurring charge configured
InitRowOrganic ==
  /\ pc = "day_transaction"
  /\ now \in RowNow
  /\ start_date = RowFirstDate + RowDays - 1
  /\ profile \in RowProfiles({<<>>})
  /\ profile.amount_profile.min_amount = Dollars(1, 0)
       <=> profile.amount_profile.max_amount = Dollars(500, 0)
  /\ num_transactions = 1

InitRow ==
  /\ OnlyCsv
  /\ InitRowRecurring \/ InitRowOrganic
  /\ InFirstCall
  /\ end_date = start_date
  /\ current_date = start_date

NextRow ==
  \/ RecurringEmit(PlainTimeDraws, AllTransactionDraws)
  \/ DayTransaction({"5812"}, Range(merchants), PlainTimeDraws, NormalSamples, {1, 2},
                    TransactionDraws(BOOLEAN, {15, 35}))
  \/ DayTransaction({"5542", "5411"}, {merchants[1], merchants[16], merchants[3]},
                    PlainTimeDraws, NormalSamples, {1, 2},
                    TransactionDraws(BOOLEAN, {15, 35}))

SpecRow == InitRow /\ [][NextRow]_all_vars

(* SpecRecurring: generate_recurring_transactions from its call to its     *)
(* return, over intervals that start in two windows (January-February of a *)
(* common year, December-January into a leap year).                        *)
RecurringWindows == {ToOrdinal(2023, 1, 20), ToOrdinal(2023, 12, 15)}
RecurringStartDays == 31
RecurringMaxSpan == 62

PlainEntries(day_set) ==
  RecurringDraws({RecurringMerchants[1]}, {Dollars(15, 99)}, day_set)

RecurringLists ==
  {<<>>}
  \cup {<<e>> : e \in PlainEntries(1..28)}
  \cup {<<e1, e2>> : e1 \in PlainEntries({15}), e2 \in PlainEntries({1, 28})}

PlainProfiles(recurring_lists) ==
  {create_spending_profile(p) :
     p \in ProfileDraws({600}, {Dollars(1, 0)}, {Dollars(500, 0)}, recurring_lists)}

InitRecurring ==
  /\ OnlyCsv
  /\ pc = "recurring_for"
  /\ now = MaxOrdinal
  /\ \E w \in RecurringWindows, k \in 0..(RecurringStartDays - 1) : start_date = w + k
  /\ \E span \in 0..RecurringMaxSpan : end_date = start_date + span
  /\ profile \in PlainProfiles(RecurringLists)
  /\ num_transactions = 0
  /\ current_date = start_date
  /\ InFirstCall

NextRecurring ==
  \/ RecurringSeek
  \/ RecurringEmit(PlainTimeDraws, PlainTransactionDraws)
  \/ RecurringNext
  \/ RecurringReturn

SpecRecurring == InitRecurring /\ [][NextRecurring]_all_vars

(* SpecBatch: main over a roster of up to two customers and an interval of  *)
(* at least 30 days; the model follows at most one organic transaction per *)
(* customer.                                                               *)
RosterSizes == {0, 1, 2}
\* 2023-01-16 + 30 days ends on February 15, 2023-01-29 + 30 days on February 28
BatchStarts == {ToOrdinal(2023, 1, 16), ToOrdinal(2023, 1, 29)}
BatchMaxSpan == 30
BatchSpans == 30..BatchMaxSpan

BatchLists ==
  {<<>>}
  \cup {<<e>> : e \in PlainEntries({15})}
  \cup {<<e1, e2>> : e1 \in PlainEntries({1}), e2 \in PlainEntries({28})}

BatchProfileDraws ==
  ProfileDraws({600}, {Dollars(1, 0)}, {Dollars(500, 0)}, BatchLists)

InitBatch ==
  /\ OnlyCsv
  /\ pc = "main_for"
  /\ \E n \in RosterSizes : customer_names = SubSeq(Roster, 1, n)
  /\ start_date \in BatchStarts
  /\ \E span \in BatchSpans : end_date = start_date + span
  /\ now = end_date
  /\ Fresh
  /\ profiles = <<>>
  /\ samples = <<>>
  /\ card_nums = <<>>
  /\ profile \in PlainProfiles({<<>>})
  /\ card_data \in {generate_card_data("", c) : c \in PlainCardDraws}
  /\ num_transactions = 0
  /\ current_date = start_date

NextBatch ==
  \/ MainCall
  \/ CustomerStart(BatchProfileDraws, PlainCardDraws)
  \/ RecurringSeek
  \/ RecurringEmit(PlainTimeDraws, PlainTransactionDraws)
  \/ RecurringNext
  \/ RecurringReturn
  \/ DaySkip
  \/ DayStart(1)
  \/ DayTransaction({"5812"}, {merchants[1]}, PlainTimeDraws, {Dollars(47, 11)}, {1},
                    PlainTransactionDraws)
  \/ CustomerReturn
  \/ MainWrite

SpecBatch == InitBatch /\ [][NextBatch]_all_vars

(* SpecProfile: the start of generate_customer_transactions for one         *)
(* customer, where the profile and the card are made, with the outcomes of *)
(* the category samples and of the weight draws.                           *)
ProfileSamples == CategorySamples({1, 14, 25}, {3, 4, 5}, {5, 10})

CategoryRichDraws ==
  SpendingDraws(ProfileSamples, UniformPatterns(ProfileSamples),
                TimeUniforms({UnitSteps}), {600}, {Dollars(1, 0)}, {Dollars(500, 0)},
                {<<>>})

TimeRichDraws ==
  SpendingDraws({PlainSample}, {[mcc \in Range(MCC_CODES) |-> UnitSteps]},
                TimeUniforms({0, UnitSteps}), {500, 617, 700}, {Dollars(1, 0)},
                {Dollars(500, 0)}, {<<>>})

InitProfile ==
  /\ OnlyCsv
  /\ pc = "customer_call"
  /\ customer_names = SubSeq(Roster, 1, 1)
  /\ start_date = ToOrdinal(2023, 1, 16)
  /\ end_date = start_date + 30
  /\ now = end_date
  /\ Fresh
  /\ profiles = <<>>
  /\ samples = <<>>
  /\ card_nums = <<>>
  /\ profile \in PlainProfiles({<<>>})
  /\ card_data \in {generate_card_data("", c) : c \in PlainCardDraws}
  /\ num_transactions = 0
  /\ current_date = start_date

NextProfile ==
  \/ CustomerStart(CategoryRichDraws, PlainCardDraws)
  \/ CustomerStart(TimeRichDraws, CardDraws)

SpecProfile == InitProfile /\ [][NextProfile]_all_vars

(***************************************************************************)
(* Properties of the profiles.                                             *)
(***************************************************************************)
Abs(x) == IF x >= 0 THEN x ELSE -x

\* the sum of the normalized weights of d is 1, each weight having been
\* rounded by at most half a unit
SumsToOne(d, keys) ==
  2 * Abs(SumSeq(d, keys, Len(keys)) - WeightOne) <= Len(keys)

\* C11: every profile has a non-negative weight for every catalog code, the
\* category weights and the four time-of-day weights each sum to 1 (to within
\* the rounding of the divisions), and weekday_weight + weekend_weight = 1
C11_ProfileWeights ==
  \A i \in DOMAIN profiles :
    LET p == profiles[i]
    IN /\ DOMAIN p.mcc_preference = Range(MCC_CODES)
       /\ \A mcc \in Range(MCC_CODES) : p.mcc_preference[mcc] >= 0
       /\ SumsToOne(p.mcc_preference, MCC_CODES)
       /\ DOMAIN p.time_preferences = Range(TIME_KEYS)
       /\ \A k \in Range(TIME_KEYS) : p.time_preferences[k] >= 0
       /\ SumsToOne(p.time_preferences, TIME_KEYS)
       /\ p.weekday_weight + p.weekend_weight = 1000

\* a profile of five primary categories with a category of weight 0, whose
\* rounded category weights do not add up to WeightOne exactly
C11_Witness ==
  /\ pc = "recurring_for"
  /\ \E i \in DOMAIN profiles :
       /\ Cardinality(samples[i].primary_categories) = 5
       /\ \E mcc \in Range(MCC_CODES) : profiles[i].mcc_preference[mcc] = 0
       /\ SumSeq(profiles[i].mcc_preference, MCC_CODES, Len(MCC_CODES)) # WeightOne

\* C12: a profile has 3 to 5 primary categories, and each one's normalized
\* weight is strictly greater than that of every other category
C12_PrimaryOutweigh ==
  \A i \in DOMAIN profiles :
    /\ Cardinality(samples[i].primary_categories) \in 3..5
    /\ \A mcc \in samples[i].primary_categories :
         \A other \in Range(MCC_CODES) \ samples[i].primary_categories :
           profiles[i].mcc_preference[mcc] > profiles[i].mcc_preference[other]

\* ten secondary categories at the top of their range against three primary
\* ones at the bottom of theirs: the weights are within nine tenths
C12_Witness ==
  \E i \in DOMAIN profiles :
    /\ Cardinality(samples[i].primary_categories) = 3
    /\ Cardinality(samples[i].secondary_categories) = 10
    /\ \E mcc \in samples[i].primary_categories :
         \E other \in samples[i].secondary_categories :
           100 * profiles[i].mcc_preference[other] >= 89 * profiles[i].mcc_preference[mcc]

(***************************************************************************)
(* Properties of the transaction records.                                  *)
(***************************************************************************)
\* every record generated so far, wherever it is held
Rows == Range(transactions) \cup Range(all_transactions) \cup Range(main_transactions)
RecurringRows == Range(transactions)
OrganicRows == {all_transactions[i] : i \in (Len(transactions) + 1)..Len(all_transactions)}

\* C1: a record that is not Approved (Declined or Pending) has fees 0 and
\* net_amount 0
C1_NotApprovedNoFees ==
  \A t \in Rows :
    t.transaction_status # "Approved" => t.fees = 0 /\ t.net_amount = 0

C1_Witness ==
  \E t \in Rows :
    /\ t.transaction_status = "Pending"
    /\ t.transaction_amount > Dollars(100, 0)
    /\ t.fees = 0

\* C2: an Approved record, Sale or Refund, has net_amount equal to
\* round(transaction_amount - fees, 2) and fees between 1.5% and 3.5% of
\* transaction_amount, to within half a cent
HalfCent == Cent \div 2
C2_ApprovedFeesOfStoredAmount ==
  \A t \in Rows :
    t.transaction_status = "Approved" =>
      /\ t.net_amount = Round2(t.transaction_amount - t.fees, 1)
      /\ 15 * t.transaction_amount - HalfCent * Scale <= t.fees * Scale
      /\ t.fees * Scale <= 35 * t.transaction_amount + HalfCent * Scale

\* C3: assign_mcc_to_merchant of a record's merchant_name is the record's
\* merchant_category_code, for organic and recurring records
C3_MccConsistent ==
  \A t \in Rows : assign_mcc_to_merchant(t.merchant_name) = t.merchant_category_code

C3_Witness ==
  /\ pc = "day_for"
  /\ \E t \in OrganicRows :
       /\ t.merchant_category_code = "5542"
       /\ t.merchant_name \in GasPool

\* C4: a Declined record has no settlement_date; an Approved record settles
\* 1 to 3 days and a Pending record 3 to 7 days after its transaction_date
C4_SettlementDate ==
  \A t \in Rows :
    /\ t.transaction_status = "Declined" => t.settlement_date = None
    /\ t.transaction_status # "Declined" =>
         /\ t.settlement_date # None
         /\ DateStrLess(t.transaction_date, t.settlement_date)
         /\ DateStrDiff(t.transaction_date, t.settlement_date) \in
              (IF t.transaction_status = "Approved" THEN 1..3 ELSE 3..7)

\* a Pending record settled in the year after its transaction
C4_Witness ==
  \E t \in Rows :
    /\ t.transaction_status = "Pending"
    /\ t.settlement_date # None
    /\ t.settlement_date[1] = t.transaction_date[1] + 1

\* C6 as claimed: a recurring record stores exactly the entry's amount
entry_for(i) == profile.recurring_transactions[entry_of[i]]
C6_RecurringAmountExact ==
  \A i \in DOMAIN transactions :
    transactions[i].transaction_amount = entry_for(i).amount

\* C6 amended: a recurring record stores the entry's amount unchanged for a
\* Sale and its negation for a Refund
C6_RecurringAmountSigned ==
  \A i \in DOMAIN transactions :
    transactions[i].transaction_amount =
      (IF transactions[i].transaction_type = "Sale"
       THEN entry_for(i).amount ELSE -entry_for(i).amount)

\* a refunded recurring charge whose amount is not a whole number of cents
C6_Witness ==
  \E i \in DOMAIN transactions :
    /\ transactions[i].transaction_type = "Refund"
    /\ entry_for(i).amount % Cent # 0

(***************************************************************************)
(* Properties of generate_recurring_transactions.                          *)
(***************************************************************************)
DateOfRow(t) == ToOrdinal(t.transaction_date[1], t.transaction_date[2], t.transaction_date[3])

\* the rows emitted for entry k, and the days of the interval that fall on
\* the entry's day of month
RowsOfEntry(k) == {i \in DOMAIN transactions : entry_of[i] = k}
DueDates(k) ==
  {n \in start_date..end_date : DayOf(n) = profile.recurring_transactions[k].day_of_month}

\* C5: every emitted transaction is dated on the entry's day_of_month and,
\* once an entry is done, its transactions are dated on exactly the days of
\* the interval that fall on that day of month, one transaction each
C5_OnePerMonth ==
  /\ \A i \in DOMAIN transactions :
       transactions[i].transaction_date[3] = entry_for(i).day_of_month
  /\ \A k \in 1..(recurring_index - 1) :
       /\ {DateOfRow(transactions[i]) : i \in RowsOfEntry(k)} = DueDates(k)
       /\ Cardinality(RowsOfEntry(k)) = Cardinality(DueDates(k))

\* an entry done with three transactions, the first and the last in
\* different years
C5_Witness ==
  \E k \in 1..(recurring_index - 1) :
    /\ Cardinality(RowsOfEntry(k)) = 3
    /\ \E i, j \in RowsOfEntry(k) :
         transactions[i].transaction_date[1] < transactions[j].transaction_date[1]

(***************************************************************************)
(* Properties of the batch run.                                            *)
(***************************************************************************)
Written == pc = "done"
OutputRows == output_file[1]
OutputIds == {OutputRows[i].customer_id : i \in DOMAIN OutputRows}
RosterIds == {customer_names[i][1] : i \in DOMAIN customer_names}

RECURSIVE ChargesUpTo(_)
ChargesUpTo(n) ==
  IF n = 0 THEN 0 ELSE ChargesUpTo(n - 1) + Len(profiles[n].recurring_transactions)
\* the recurring charges configured across the profiles of the run
RecurringCharges == ChargesUpTo(Len(profiles))

\* C7 as claimed: over a non-empty roster and at least 30 days the output is
\* non-empty and its customer_id values are exactly the roster's identifiers
C7_EveryCustomerHasRows ==
  (Written /\ customer_names # <<>> /\ end_date - start_date >= 30) =>
    /\ OutputRows # <<>>
    /\ OutputIds = RosterIds

\* C7 amended: the output's customer_id values are roster identifiers, and
\* every customer whose profile has a recurring charge is among them
C7_RowsOfRosterOnly ==
  (Written /\ customer_names # <<>> /\ end_date - start_date >= 30) =>
    /\ OutputIds \subseteq RosterIds
    /\ \A c \in DOMAIN customer_names :
         profiles[c].recurring_transactions # <<>> => customer_names[c][1] \in OutputIds

\* two customers, the first with a recurring charge, the second with no row
C7_Witness ==
  /\ Written
  /\ Len(customer_names) = 2
  /\ profiles[1].recurring_transactions # <<>>
  /\ OutputIds = {customer_names[1][1]}

\* C8: over at least 30 days the output has at least as many rows as there
\* are recurring charges configured across the customers' profiles
C8_RowsCoverCharges ==
  (Written /\ end_date - start_date >= 30) => Len(OutputRows) >= RecurringCharges

\* four recurring charges and exactly four rows
C8_Witness ==
  /\ Written
  /\ end_date - start_date = 30
  /\ RecurringCharges = 4
  /\ Len(OutputRows) = 4

(* SpecOffer: generate_dummy_data.  A run of one pass follows every outcome *)
(* of the date draws, or every outcome of the type and discount draws; a   *)
(* run of two passes follows the type and the branch tests.                *)
AllWindowDraws ==
  OfferDraws({1}, {1}, -15..90, 5..30, 15..120, {"limited_time"})
AllShapeDraws ==
  OfferDraws(1..Len(MERCHANTS), {1, 10}, {-15, 90}, {5, 30}, {15}, Range(OFFER_TYPES))
TypeDraws ==
  {d \in OfferDraws({1}, {1}, {0}, {5}, {15}, Range(OFFER_TYPES)) :
     /\ d.percent \in {None, <<10>>}
     /\ d.value \in {None, <<100>>}
     /\ d.min_purchase \in {None, <<499>>, <<999>>}}

\* generate_transaction_csv.py is not run
NoTransactions ==
  /\ pc = "not run"
  /\ now = 0
  /\ customer_names = <<>>
  /\ start_date = 0
  /\ end_date = 0
  /\ Fresh
  /\ profiles = <<>>
  /\ samples = <<>>
  /\ card_nums = <<>>
  /\ profile = None
  /\ card_data = None
  /\ num_transactions = 0
  /\ current_date = 0

InitOffer ==
  /\ NoTransactions
  /\ NoApp
  /\ NoCalls
  /\ NoSimple
  /\ offer_pc = "loop"
  /\ today = ToOrdinal(2023, 6, 1)
  /\ num_offers \in {0, 1, 2}
  /\ data = <<>>
  /\ NoDatabase

NextOffer ==
  \/ num_offers = 1 /\ GenerateOffer(AllWindowDraws)
  \/ num_offers = 1 /\ GenerateOffer(AllShapeDraws)
  \/ num_offers > 1 /\ GenerateOffer(TypeDraws)
  \/ ReturnOffers

SpecOffer == InitOffer /\ [][NextOffer]_all_vars

\* C9: a buy_one_get_one offer has discount_percent and discount_value None;
\* a discount offer has a discount_percent
C9_DiscountShape ==
  \A i \in DOMAIN data :
    /\ data[i].type = "buy_one_get_one" =>
         data[i].discount_percent = None /\ data[i].discount_value = None
    /\ data[i].type = "discount" => data[i].discount_percent # None

\* a run that generated an offer of each of the two types
C9_Witness ==
  /\ offer_pc = "returned"
  /\ \E i, j \in DOMAIN data :
       /\ data[i].type = "buy_one_get_one"
       /\ data[j].type = "discount"
       /\ data[j].minimum_purchase = None

\* C10: valid_from <= valid_until in every offer
C10_WindowOrdered ==
  \A i \in DOMAIN data : data[i].valid_from <= data[i].valid_until

\* the -30 floor applied and the shortest end offset: the window closes on
\* the run's day, 30 days after it opened
C10_Witness ==
  \E i \in DOMAIN data :
    /\ data[i].valid_from = today - 30
    /\ data[i].valid_until = today

(***************************************************************************)
(* Properties of the list of one customer.                                 *)
(***************************************************************************)
\* generate_customer_transactions is about to return all_transactions
AtCustomerReturn == pc = "day_for" /\ day_offset >= days

\* (transaction_date, transaction_time) of a is later than that of b
LaterThan(a, b) ==
  \/ DateStrLess(b.transaction_date, a.transaction_date)
  \/ /\ a.transaction_date = b.transaction_date
     /\ DateStrLess(b.transaction_time, a.transaction_time)

\* C13: the list returned for one customer is in chronological order: no
\* record is later than a record that follows it in the list
C13_Chronological ==
  AtCustomerReturn =>
    \A i, j \in DOMAIN all_transactions :
      i < j => ~LaterThan(all_transactions[i], all_transactions[j])

(* SpecAssign: assign_mcc_to_merchant called twice on one name.  The names *)
(* are the catalog's, every keyword in lower case, in upper case and       *)
(* capitalized, alone or after another keyword, with or without a prefix   *)
(* and a suffix, and every string of up to MaxNameLen characters of a      *)
(* small alphabet.                                                         *)
MaxNameLen == 3
NameAlphabet == {"a", "T", "m", " ", "7"}

RECURSIVE StringsUpTo(_)
StringsUpTo(n) ==
  IF n = 0 THEN {<<>>}
  ELSE StringsUpTo(n - 1)
       \cup {Append(w, c) : w \in {v \in StringsUpTo(n - 1) : Len(v) = n - 1},
                            c \in NameAlphabet}

Keywords == {keyword_to_mcc[i][1] : i \in DOMAIN keyword_to_mcc}

KeywordSpellings ==
  Keywords
  \cup {Capitals(k) : k \in Keywords}
  \cup {[i \in DOMAIN k |-> IF i = 1 THEN UpperChar(k[i]) ELSE k[i]] : k \in Keywords}

\* two keywords in one name, in capitals, in either order of the table
KeywordPairs ==
  {Capitals(keyword_to_mcc[i][1] \o <<" ">> \o keyword_to_mcc[j][1]) :
     i \in {1, 7, 30, 66}, j \in DOMAIN keyword_to_mcc}

NamesGiven ==
  CatalogNames
  \cup StringsUpTo(MaxNameLen)
  \cup {pre \o k \o post : pre \in {<<>>, <<"M", "y", " ">>}, k \in KeywordSpellings,
                           post \in {<<>>, <<"s">>}}
  \cup KeywordPairs

InitAssign ==
  /\ NoTransactions
  /\ NoApp
  /\ NoOffers
  /\ NoSimple
  /\ name_given \in NamesGiven
  /\ assigned = <<>>

NextAssign == AssignCall(2)

SpecAssign == InitAssign /\ [][NextAssign]_all_vars

\* the code of the first keyword, in the order of the table, found in the
\* lower-cased name, stated keyword by keyword
IsFirstKeywordCode(name, code) ==
  \/ \E i \in DOMAIN keyword_to_mcc :
       /\ Contains(Lower(name), keyword_to_mcc[i][1])
       /\ \A j \in 1..(i - 1) : ~Contains(Lower(name), keyword_to_mcc[j][1])
       /\ code = keyword_to_mcc[i][2]
  \/ /\ \A i \in DOMAIN keyword_to_mcc : ~Contains(Lower(name), keyword_to_mcc[i][1])
     /\ code = "5999"

\* C14: every call of assign_mcc_to_merchant returns the code of the first
\* keyword of the table found in the lower-cased name, or "5999" when none is
\* found; the code is a key of MCC_CODES, and two calls on one name agree
C14_AssignTotal ==
  \A i \in DOMAIN assigned :
    /\ IsFirstKeywordCode(name_given, assigned[i])
    /\ assigned[i] \in Range(MCC_CODES)
    /\ assigned[i] = assigned[1]

\* two calls made on a name in capitals that holds keywords of two codes
C14_Witness ==
  /\ Len(assigned) = 2
  /\ name_given # Lower(name_given)
  /\ LET hits == MatchingKeywords(Lower(name_given))
     IN \E i, j \in hits : keyword_to_mcc[i][2] # keyword_to_mcc[j][2]

\* C15: transaction_amount is strictly positive in a Sale and strictly
\* negative in a Refund, organic or recurring
C15_AmountSign ==
  \A t \in Rows :
    /\ t.transaction_type = "Sale" => t.transaction_amount > 0
    /\ t.transaction_type = "Refund" => t.transaction_amount < 0

\* an organic Refund of the smallest amount there is: the normal draw raised
\* to min_amount 1.00, times the fast food multiplier 0.3
C15_Witness ==
  \E t \in OrganicRows :
    /\ t.transaction_type = "Refund"
    /\ t.merchant_category_code = "5814"
    /\ t.transaction_amount = -Dollars(0, 30)

\* C16: transaction_amount, fees and net_amount of every record, organic or
\* recurring, are rounded to 2 decimal places
C16_TwoDecimals ==
  \A t \in Rows :
    /\ t.transaction_amount % Cent = 0
    /\ t.fees % Cent = 0
    /\ t.net_amount % Cent = 0

(* SpecSimple: generate_transactions.py from its start to the file, over   *)
(* up to two customers and SimpleDays days, with at most two transactions  *)
(* in a run.                                                               *)
SimpleDays == 2

SimpleStreams ==
  {<<"0", "0", "0", "0", "0", "0", "0">>, <<"5", "8", "0", "7", "3", "0", "9">>}

FavoriteSamples ==
  {SampleFrom(simple_MCC_CODES, 8, k) : k \in {3, 5}}

InitSimple ==
  /\ NoTransactions
  /\ NoApp
  /\ NoOffers
  /\ NoCalls
  /\ simple_pc = "customer_for"
  /\ simple_start = ToOrdinal(2023, 12, 30)
  /\ simple_days = SimpleDays
  /\ num_customers \in {0, 1, 2}
  /\ simple_transactions = <<>>
  /\ simple_i = 1
  /\ simple_card = None
  /\ favorite_categories = {}
  /\ simple_day = 0
  /\ simple_left = 0
  /\ counts = <<0, 0>>
  /\ printed = <<>>
  /\ csvfile = None

NextSimple ==
  \/ SimpleCustomer(SimpleCardDraws(Range(CARD_TYPES), SimpleStreams), FavoriteSamples)
  \/ SimpleDaySkip
  \/ SimpleDayStart(2)
  \/ SimpleTransaction({"5411", "4899"}, {UnitSteps}, {<<8, 0, 0>>})
  \/ SimpleCustomerDone
  \/ SimpleReturn
  \/ SaveToCsv

SpecSimple == InitSimple /\ [][NextSimple]_all_vars

(***************************************************************************)
(* Properties of the card numbers.                                         *)
(***************************************************************************)
\* four digits, ' XXXX XXXX ', four digits
MaskShape(masked) ==
  /\ Len(masked) = 4 + Len(Redaction) + 4
  /\ \A i \in 1..4 : masked[i] \in Digits
  /\ SubSeq(masked, 5, 4 + Len(Redaction)) = Redaction
  /\ \A i \in 1..4 : masked[4 + Len(Redaction) + i] \in Digits

\* the masked number of the card made last by generate_card_data shows the
\* first four and the last four digits of that card
CsvMasked ==
  card_nums # <<>> =>
    LET card_num == card_nums[Len(card_nums)]
    IN /\ MaskShape(card_data.card_number)
       /\ SubSeq(card_data.card_number, 1, 4) = SubSeq(card_num, 1, 4)
       /\ LastOf(card_data.card_number, 4) = LastOf(card_num, 4)

\* C17: every masked card number of either generator, whatever the network,
\* shows the first 4 and the last 4 digits with 'XXXX XXXX' between them
C17_MaskedCardNumber ==
  /\ CsvMasked
  /\ simple_card # None => MaskShape(simple_card.card_number)
  /\ \A i \in DOMAIN simple_transactions : MaskShape(simple_transactions[i].card_number)

(* SpecRun: main as in SpecBatch, where generate_customer_transactions may  *)
(* also raise at any of its statements.                                    *)
NextRun ==
  \/ MainCall
  \/ CustomerStart(BatchProfileDraws, PlainCardDraws)
  \/ RecurringSeek
  \/ RecurringEmit(PlainTimeDraws, PlainTransactionDraws)
  \/ RecurringNext
  \/ RecurringReturn
  \/ DaySkip
  \/ DayStart(1)
  \/ DayTransaction({"5812"}, {merchants[1]}, PlainTimeDraws, {Dollars(47, 11)}, {1},
                    PlainTransactionDraws)
  \/ CustomerFail
  \/ CustomerReturn
  \/ MainWrite

SpecRun == InitBatch /\ [][NextRun]_all_vars

\* C18: the output file is written at most once, and only when generation
\* has completed for every customer of the roster; a run in which a customer's
\* generation failed has written no output
C18_WrittenOnceAtEnd ==
  /\ writes <= 1
  /\ writes = 0 <=> output_file = None
  /\ output_file # None =>
       /\ pc = "done"
       /\ customer > Len(customer_names)
       /\ Len(profiles) = Len(customer_names)
       /\ output_file = <<main_transactions>>
  /\ pc = "aborted" => output_file = None

\* the second customer's generation failed after the first customer's rows
\* were collected: nothing is written
C18_Witness ==
  /\ pc = "aborted"
  /\ customer = 2
  /\ main_transactions # <<>>
  /\ all_transactions # <<>>
  /\ output_file = None

(***************************************************************************)
(* SpecDatabase: main of generate_dummy_data.py, the batch generated and   *)
(* then stored by create_database, over a database file that an earlier    *)
(* run may have left with or without rows.                                  *)
(***************************************************************************)
\* Amazon of Shopping and Amazon Prime of Entertainment share the prefix of
\* their offer ids
DatabaseDraws ==
  WithUuids({d \in OfferDraws({1, 5}, {1, 5}, {0}, {5}, {15}, {"buy_one_get_one", "limited_time"}) :
               d.percent \in {None, <<10>>} /\ d.value = None /\ d.min_purchase = None})

\* rows of a batch of thirty days before this run
EarlierRows ==
  LET d == CHOOSE d \in DatabaseDraws : d.category = 1 /\ d.merchant = 1 /\ d.uuid = UuidStrings[1]
      e == CHOOSE e \in DatabaseDraws : e.category = 5 /\ e.merchant = 1 /\ e.uuid = UuidStrings[2]
  IN <<generate_offer(ToOrdinal(2023, 5, 2), d), generate_offer(ToOrdinal(2023, 5, 2), e)>>

InitDatabase ==
  /\ NoTransactions
  /\ NoApp
  /\ NoCalls
  /\ NoSimple
  /\ offer_pc = "loop"
  /\ today = ToOrdinal(2023, 6, 1)
  /\ num_offers \in {1, 2}
  /\ data = <<>>
  /\ conn = "none"
  /\ offers \in {None, <<<<>>>>, <<SubSeq(EarlierRows, 1, 1)>>, <<EarlierRows>>}
  /\ offers_before = None
  /\ db_printed = None

NextDatabase ==
  \/ GenerateOffer(DatabaseDraws)
  \/ ReturnOffers
  \/ DbConnect
  \/ DbCreateTable
  \/ DbToSql
  \/ DbVerify
  \/ DbClose

SpecDatabase == InitDatabase /\ [][NextDatabase]_all_vars

\* C19: once create_database has stored the batch, table offers holds the
\* rows of df and no other: a row for each generated offer, NUM_OFFERS rows,
\* whatever the table held when create_database was called
C19_TableReplaced ==
  offer_pc \in {"verify", "close", "done"} =>
    /\ offers = <<data>>
    /\ Len(offers[1]) = num_offers
    /\ offer_pc # "verify" => db_printed = <<num_offers>>

\* the table held two rows of an earlier batch, one of them under the offer
\* id of a new row, and the two rows of the new batch share their offer id
C19_Witness ==
  /\ offer_pc = "done"
  /\ offers_before = <<EarlierRows>>
  /\ num_offers = 2
  /\ data[1].offer_id = data[2].offer_id
  /\ data[1].merchant # data[2].merchant
  /\ data[1].offer_id = EarlierRows[1].offer_id
  /\ data[1] # EarlierRows[1]

(***************************************************************************)
(* SpecEmpty: a run of either generator, over rosters and draws that       *)
(* include the runs with nothing to generate: no customer, or customers    *)
(* whose every day is skipped and who have no recurring charge.            *)
(***************************************************************************)
InitEmpty == InitSimple \/ InitBatch

NextEmpty ==
  \/ SimpleCustomer(SimpleCardDraws({"Visa"}, SimpleStreams), FavoriteSamples)
  \/ SimpleDaySkip
  \/ SimpleDayStart(1)
  \/ SimpleTransaction({"5411"}, {UnitSteps}, {<<8, 0, 0>>})
  \/ SimpleCustomerDone
  \/ SimpleReturn
  \/ SaveToCsv
  \/ MainCall
  \/ CustomerStart(ProfileDraws({600}, {Dollars(1, 0)}, {Dollars(500, 0)}, {<<>>} \cup {<<e>> : e \in PlainEntries({15})}), PlainCardDraws)
  \/ RecurringSeek
  \/ RecurringEmit(PlainTimeDraws, PlainTransactionDraws)
  \/ RecurringNext
  \/ RecurringReturn
  \/ DaySkip
  \/ start_date = ToOrdinal(2023, 1, 16) /\ DayStart(1)
  \/ DayTransaction({"5812"}, {merchants[1]}, PlainTimeDraws, {Dollars(47, 11)}, {1},
                    PlainTransactionDraws)
  \/ CustomerReturn
  \/ MainWrite

SpecEmpty == InitEmpty /\ [][NextEmpty]_all_vars

\* the run of generate_transactions.py ended with no transaction generated
SimpleEndedEmpty == simple_pc = "done" /\ simple_transactions = <<>>

\* the run of generate_transaction_csv.py ended with no transaction generated
BatchEndedEmpty == pc = "done" /\ main_transactions = <<>>

\* C20: a run with nothing to generate ends with an empty output and a
\* reported count of zero: save_to_csv leaves a file with no header and no
\* row, the batch runner writes a table with no row
C20_EmptyRun ==
  /\ simple_pc = "save_to_csv" /\ simple_transactions = <<>> =>
       printed = <<[transactions |-> 0, customers |-> num_customers]>>
  /\ SimpleEndedEmpty =>
       /\ csvfile = <<<<>>>>
       /\ printed = <<[transactions |-> 0, customers |-> num_customers]>>
  /\ BatchEndedEmpty =>
       /\ output_file = <<<<>>>>
       /\ writes = 1
       /\ reported = <<0>>

\* two customers, every day of both skipped: the file is there and empty
C20_Witness ==
  /\ SimpleEndedEmpty
  /\ num_customers = 2
  /\ csvfile # None
  /\ csvfile[1] = <<>>

(***************************************************************************)
(* SpecDatabaseRun: main of generate_dummy_data.py where a statement of    *)
(* create_database may raise.                                              *)
(***************************************************************************)
NextDatabaseRun ==
  \/ GenerateOffer(DatabaseDraws)
  \/ ReturnOffers
  \/ DbConnect
  \/ DbCreateTable
  \/ DbToSql
  \/ DbVerify
  \/ DbClose
  \/ DbFail

SpecDatabaseRun == InitDatabase /\ [][NextDatabaseRun]_all_vars

\* main has returned, through its last print or through its handler
OfferRunEnded == offer_pc \in {"done", "error printed"}

\* C21: a run that opened a connection in create_database has closed it by
\* the time the run ends, whether or not a statement failed
C21_ConnectionClosed ==
  OfferRunEnded => conn # "open"

(***************************************************************************)
(* SpecLoad: the dashboard's loaders called over small tables with every   *)
(* combination of a few filter values.                                     *)
(***************************************************************************)
OffersTables ==
  LET a == [merchant |-> "Amazon", category |-> "Shopping", type |-> "discount", discount_percent |-> <<20>>, valid_until |-> Strftime(ToOrdinal(2023, 7, 1))]
      b == [merchant |-> "Swiggy", category |-> "Food & Dining", type |-> "cashback", discount_percent |-> None, valid_until |-> Strftime(ToOrdinal(2023, 5, 20))]
      c == [merchant |-> "Amazon", category |-> "Shopping", type |-> "flash_sale", discount_percent |-> <<50>>, valid_until |-> Strftime(ToOrdinal(2023, 6, 1))]
  IN {<<>>, <<a>>, <<a, b>>, <<a, b, c>>}

CustomersTables ==
  LET a == [customer_id |-> simple_customer_id(1), customer_name |-> <<"A", "n", "n">>, mobile_type |-> "iOS"]
      b == [customer_id |-> simple_customer_id(2), customer_name |-> <<"D", "a", "n">>, mobile_type |-> "Android"]
  IN {<<>>, <<a>>, <<a, b>>}

OffersFilters ==
  [merchant : {None, <<"">>, <<"Amazon">>},
   category : {None, <<"Shopping">>},
   type : {None, <<"discount">>},
   min_discount : {None, <<0>>, <<30>>},
   max_discount : {None, <<20>>},
   active_only : {None, <<FALSE>>, <<TRUE>>}]

CustomersFilters ==
  [customer_name : {None, <<<<>>>>, <<<<"a", "n">>>>, <<<<"D">>>>},
   mobile_type : {None, <<"">>, <<"iOS">>}]

InitLoad ==
  /\ NoTransactions
  /\ NoOffers
  /\ NoCalls
  /\ NoSimple
  /\ app_pc = "serving"
  /\ app_today = ToOrdinal(2023, 6, 1)
  /\ offers_rows \in OffersTables
  /\ customers_rows \in CustomersTables
  /\ app_call = None
  /\ app_result = None

NextLoad ==
  \/ LoadOffers(OffersFilters)
  \/ LoadCustomers(CustomersFilters)
  \/ LoadCustomersTab(CustomersFilters)

SpecLoad == InitLoad /\ [][NextLoad]_all_vars

\* the rows of the table read by the last call
RowsRead ==
  IF app_call.fn = "load_offers_data" THEN offers_rows ELSE customers_rows

\* the conditions of the last call
ConditionsOfCall ==
  IF app_call.fn = "load_offers_data"
  THEN offers_conditions(app_call.filters, Strftime(app_today))
  ELSE customers_conditions(app_call.filters)

\* the rows that satisfy every condition of the last call, each filter value
\* bound to its placeholder
RowsSatisfying ==
  execute_select(RowsRead, ConditionsOfCall, params_of(ConditionsOfCall)).rows

\* C22: a loader called with filters returns exactly the rows that satisfy
\* every supplied condition, and called with no filters every row
C22_FilteredRows ==
  app_call # None =>
    /\ ~app_result.raised
    /\ app_result.rows = RowsSatisfying
    /\ (\A k \in DOMAIN app_call.filters : app_call.filters[k] = None) =>
         app_result.rows = RowsRead

\* the part of C22 that holds: a call with no filters returns every row
C22_UnfilteredRows ==
  (app_call # None /\ ConditionsOfCall = <<>>) =>
    ~app_result.raised /\ app_result.rows = RowsRead

(***************************************************************************)
(* SpecWeek: the organic loop of one customer over the week from Thursday  *)
(* 2023-06-01 to Wednesday 2023-06-07, the generator run on the following  *)
(* Monday or on the following Friday; the normal draw and the category     *)
(* multiplier are the same in every transaction.                           *)
(***************************************************************************)
WeekNormal == Dollars(47, 11)

InitWeek ==
  /\ OnlyCsv
  /\ pc = "day_for"
  /\ now \in {ToOrdinal(2023, 6, 12), ToOrdinal(2023, 6, 16)}
  /\ start_date = ToOrdinal(2023, 6, 1)
  /\ end_date = ToOrdinal(2023, 6, 7)
  /\ profile \in PlainProfiles({<<>>})
  /\ num_transactions = 0
  /\ current_date = start_date
  /\ InFirstCall

NextWeek ==
  \/ DaySkip
  \/ DayStart(2)
  \/ DayTransaction({"5812"}, {merchants[1]}, PlainTimeDraws, {WeekNormal}, {1},
                    PlainTransactionDraws)

SpecWeek == InitWeek /\ [][NextWeek]_all_vars

\* the amount of a Sale of category mcc from the week's draws with no boost
\* applied: the amount the generator returns when run on a Monday
WeekAmountUnboosted(mcc) ==
  generate_transaction_amount(profile, mcc, ToOrdinal(2023, 6, 12),
    [normal |-> WeekNormal, multiplier |-> MultiplierRange(mcc)[1], boost |-> 0])

\* C23: an organic transaction carries the Friday/Saturday boost exactly
\* when its own transaction_date is a Friday or a Saturday, whatever the day
\* the generator runs
C23_BoostByOwnDate ==
  \A t \in OrganicRows :
    (t.transaction_amount # WeekAmountUnboosted(t.merchant_category_code))
      <=> Weekday(DateOfRow(t)) \in {4, 5}

(***************************************************************************)
(* SpecSelect: select_merchant_and_mcc called on its own, with the list of *)
(* get_merchants and with a list that has no merchant of either pool.      *)
(***************************************************************************)
\* Amazon, Starbucks and whatever else of get_merchants is in neither pool
OutsidePools ==
  SelectSeq(get_merchants, LAMBDA m : m \notin GasPool \cup GroceryPool)

InitSelect ==
  /\ NoTransactions
  /\ NoApp
  /\ NoOffers
  /\ NoSimple
  /\ name_given = <<>>
  /\ assigned = <<>>

NextSelect ==
  SelectCall(2, {"5542", "5411", "5812"}, {get_merchants, SubSeq(OutsidePools, 1, 2)})

SpecSelect == InitSelect /\ [][NextSelect]_all_vars

\* C24: when the sampled category is 5542 or 5411 and the list has merchants
\* of the corresponding pool, the MCC returned with the merchant is the
\* sampled MCC
C24_PreferredUnderSampled ==
  \A i \in DOMAIN assigned :
    LET r == assigned[i]
    IN (r.selected_mcc \in {"5542", "5411"}
        /\ PreferredMerchants(r.selected_mcc, r.merchants) # {})
         => r.actual_mcc = r.selected_mcc

\* the gas-station half of C24, which holds
C24_GasUnderSampled ==
  \A i \in DOMAIN assigned :
    LET r == assigned[i]
    IN (r.selected_mcc = "5542" /\ PreferredMerchants(r.selected_mcc, r.merchants) # {})
         => r.actual_mcc = "5542" /\ r.merchant \in GasPool

(***************************************************************************)
(* SpecInterval: generate_customer_transactions of one customer over short *)
(* intervals that cross the end of January, of February and of the year,   *)
(* with up to IntervalOrganic organic transactions.                        *)
(***************************************************************************)
IntervalMaxSpan == 3
IntervalOrganic == 6
IntervalStarts == {ToOrdinal(2023, 1, 30), ToOrdinal(2023, 2, 27), ToOrdinal(2023, 12, 30)}

IntervalLists ==
  {<<>>}
  \cup {<<e>> : e \in PlainEntries({1, 2, 28})}
  \cup {<<e1, e2>> : e1 \in PlainEntries({28}), e2 \in PlainEntries({1})}

InitInterval ==
  /\ OnlyCsv
  /\ pc = "recurring_for"
  /\ start_date \in IntervalStarts
  /\ \E span \in 0..IntervalMaxSpan : end_date = start_date + span
  /\ now = end_date
  /\ profile \in PlainProfiles(IntervalLists)
  /\ num_transactions = 0
  /\ current_date = start_date
  /\ InFirstCall

NextInterval ==
  \/ RecurringSeek
  \/ RecurringEmit(PlainTimeDraws, PlainTransactionDraws)
  \/ RecurringNext
  \/ RecurringReturn
  \/ DaySkip
  \/ DayStart(IntervalOrganic)
  \/ DayTransaction({"5812"}, {merchants[1]}, PlainTimeDraws, {Dollars(47, 11)}, {1},
                    PlainTransactionDraws)

SpecInterval == InitInterval /\ [][NextInterval]_all_vars

\* the organic records of the call, in the order they were appended
OrganicSeq == SubSeq(all_transactions, Len(transactions) + 1, Len(all_transactions))

\* the number of organic records dated d
OrganicOn(d) == Cardinality({i \in DOMAIN OrganicSeq : DateOfRow(OrganicSeq[i]) = d})

\* the organic loop is in its pass for day d
InPassOf(d) == pc = "day_transaction" /\ day_date = d

\* C25: every record of the call, recurring or organic, is dated inside
\* [start_date, end_date]; the organic loop takes the days of the interval in
\* order, each once (no record is dated on a day the loop has yet to reach,
\* none is added to a day it has left), and a day yields no organic record
\* or between 1 and 5
C25_InsideInterval ==
  /\ \A t \in Range(transactions) \cup Range(all_transactions) :
       start_date <= DateOfRow(t) /\ DateOfRow(t) <= end_date
  /\ \A i \in DOMAIN OrganicSeq :
       /\ DateOfRow(OrganicSeq[i]) <= start_date + day_offset
       /\ DateOfRow(OrganicSeq[i]) = start_date + day_offset => InPassOf(DateOfRow(OrganicSeq[i]))
       /\ \A j \in DOMAIN OrganicSeq :
            i < j => DateOfRow(OrganicSeq[i]) <= DateOfRow(OrganicSeq[j])
  /\ \A d \in start_date..end_date :
       /\ OrganicOn(d) \in 0..5
       /\ InPassOf(d) => OrganicOn(d) + num_transactions \in 1..5
  /\ pc \in {"day_for", "day_transaction"} => day_offset \in 0..days

\* the call is about to return over an interval that crosses the year: a
\* recurring record on the last day, a day with five organic records, a day
\* with one and a day with none
C25_Witness ==
  /\ AtCustomerReturn
  /\ YearOf(start_date) < YearOf(end_date)
  /\ \E t \in Range(transactions) : DateOfRow(t) = end_date
  /\ \E d \in start_date..end_date : OrganicOn(d) = 5
  /\ \E d \in start_date..end_date : OrganicOn(d) = 1
  /\ \E d \in start_date..end_date : OrganicOn(d) = 0

(***************************************************************************)
(* SpecNames: the display names given to customer identifiers by calls of  *)
(* generate_customer_name and by runs of generate_customer_names.          *)
(***************************************************************************)
\* outcomes of fake.name()
FakeNames == {"Allison Hill", "Noah Rhodes", "Angie Henderson"}

InitNames ==
  /\ NoTransactions
  /\ NoApp
  /\ NoOffers
  /\ NoSimple
  /\ name_given = <<>>
  /\ assigned = <<>>

NextNames ==
  \/ CustomerNameCall(4, {simple_customer_id(1), simple_customer_id(2)}, FakeNames)
  \/ CustomerNamesCall(4, 2, FakeNames)

SpecNames == InitNames /\ [][NextNames]_all_vars

\* C26: the display name is a function of the customer identifier: any two
\* names generated for one identifier, by either generator, are the same
C26_NameOfIdentifier ==
  \A i, j \in DOMAIN assigned :
    (assigned[i].customer_id = assigned[j].customer_id
     /\ (assigned[i].seeded = None <=> assigned[j].seeded = None))
      => assigned[i].name = assigned[j].name

(***************************************************************************)
(* SpecCreate: create_spending_profile over the draws of SpecProfile and   *)
(* over recurring lists of every length.                                   *)
(***************************************************************************)
\* the lists of 0 to 5 entries on the first and the last day allowed
RecurringRichLists ==
  {<<>>} \cup UNION {[1..k -> PlainEntries({1, 28})] : k \in 1..5}

RecurringRichDraws ==
  ProfileDraws({600}, {Dollars(1, 0)}, {Dollars(500, 0)}, RecurringRichLists)

NextCreate ==
  \/ CustomerStart(CategoryRichDraws, PlainCardDraws)
  \/ CustomerStart(TimeRichDraws, PlainCardDraws)
  \/ CustomerStart(RecurringRichDraws, PlainCardDraws)

SpecCreate == InitProfile /\ [][NextCreate]_all_vars

\* C27: every call of create_spending_profile returns a profile: the two
\* samples are disjoint and no larger than their populations (the second is
\* drawn from the codes the first left, of which there are at least 10), the
\* two normalizing totals are strictly positive, and the recurring list has
\* 0 to 5 entries with day_of_month in 1..28
C27_NoFailure ==
  /\ Len(profiles) = Len(samples)
  /\ pc = "recurring_for" => Len(profiles) = 1 /\ profile = profiles[1]
  /\ \A i \in DOMAIN samples :
       LET c == samples[i]
           p == profiles[i]
       IN /\ c.primary_categories \cap c.secondary_categories = {}
          /\ Cardinality(c.primary_categories) \in 3..5
          /\ Cardinality(c.primary_categories) <= Len(MCC_CODES)
          /\ c.secondary_categories \subseteq Range(CodesWithout(c.primary_categories))
          /\ Cardinality(c.secondary_categories) \in 5..10
          /\ 10 <= Len(CodesWithout(c.primary_categories))
          /\ c.total_weight > 0
          /\ c.total_time_weight > 0
          /\ Len(p.recurring_transactions) \in 0..5
          /\ \A k \in DOMAIN p.recurring_transactions :
               p.recurring_transactions[k].day_of_month \in 1..28

\* a profile returned with five primary and ten secondary categories, every
\* draw of the category weights at the bottom of its range
C27_Witness ==
  /\ pc = "recurring_for"
  /\ Cardinality(samples[1].primary_categories) = 5
  /\ Cardinality(samples[1].secondary_categories) = 10
  /\ samples[1].total_weight = 5 * 100 + 10 * 10

(***************************************************************************)
(* SpecAdd: add_real_customer called again and again on a customers table  *)
(* whose identifiers are CUST and six digits.                              *)
(***************************************************************************)
AddMaxRows == 4

CustomerRow(i) ==
  [customer_id |-> <<"C", "U", "S", "T">> \o Format06d(i),
   customer_name |-> <<"A", "n", "n">>,
   mobile_type |-> "iOS"]

AddTables ==
  {<<>>, <<CustomerRow(1), CustomerRow(2)>>, <<CustomerRow(9)>>,
   <<CustomerRow(3), CustomerRow(1003)>>, <<CustomerRow(999998)>>}

InitAdd ==
  /\ NoTransactions
  /\ NoOffers
  /\ NoCalls
  /\ NoSimple
  /\ app_pc = "serving"
  /\ app_today = ToOrdinal(2023, 6, 1)
  /\ offers_rows = <<>>
  /\ customers_rows \in AddTables
  /\ app_call = None
  /\ app_result = None

NextAdd ==
  AddRealCustomer(AddMaxRows, {<<"J", "o", "h", "n">>, <<"M", "a", "r", "y">>}, {"iOS", "Android"})

SpecAdd == InitAdd /\ [][NextAdd]_all_vars

\* the numbers of the identifiers of a table
NumbersOf(rows) ==
  {ParseInt(SubSeq(rows[i].customer_id, 5, Len(rows[i].customer_id))) : i \in DOMAIN rows}

GreatestOf(numbers) ==
  IF numbers = {} THEN 0 ELSE CHOOSE m \in numbers : \A x \in numbers : x <= m

\* C28: every call of add_real_customer succeeds and returns the identifier
\* whose number is one more than the greatest number in the table before the
\* call, and the customer_id values of the table stay pairwise distinct
C28_NextIdentifier ==
  /\ \A i, j \in DOMAIN customers_rows :
       i # j => customers_rows[i].customer_id # customers_rows[j].customer_id
  /\ app_call # None =>
       /\ ~app_result.raised
       /\ NumbersOf(<<[customer_id |-> app_result.returned[1]]>>)
            = {GreatestOf(NumbersOf(app_call.before)) + 1}

\* the part of C28 that holds: while the numbers stay below 999999 the
\* calls succeed with the next number
C28_BelowSixDigitsEnd ==
  (app_call # None /\ GreatestOf(NumbersOf(app_call.before)) < 999999) =>
    /\ ~app_result.raised
    /\ NumbersOf(<<[customer_id |-> app_result.returned[1]]>>)
         = {GreatestOf(NumbersOf(app_call.before)) + 1}

(***************************************************************************)
(* SpecTermination: generate_recurring_transactions called with one or two *)
(* entries on any day_of_month of 1..28, from start dates before and on    *)
(* the ends of months of 28, 29, 30 and 31 days and of the year, over      *)
(* every interval length up to TerminationMaxSpan.  The program is         *)
(* sequential: the statement it has reached is executed (weak fairness of  *)
(* the next step).  The seek and adjust loops are evaluated by recursion   *)
(* on the loop body (SkipPastMonthEnd, SkipToDay, adjust_day).             *)
(***************************************************************************)
TerminationMaxSpan == 62

TerminationStarts ==
  {ToOrdinal(2023, 1, 1), ToOrdinal(2023, 1, 31), ToOrdinal(2023, 2, 28),
   ToOrdinal(2023, 4, 30), ToOrdinal(2023, 12, 2), ToOrdinal(2023, 12, 31),
   ToOrdinal(2024, 1, 29), ToOrdinal(2024, 2, 29)}

TerminationLists ==
  {<<e>> : e \in PlainEntries(1..28)}
  \cup {<<e1, e2>> : e1 \in PlainEntries({28}), e2 \in PlainEntries({1})}

InitTermination ==
  /\ OnlyCsv
  /\ pc = "recurring_for"
  /\ now = MaxOrdinal
  /\ start_date \in TerminationStarts
  /\ \E span \in 0..TerminationMaxSpan : end_date = start_date + span
  /\ profile \in PlainProfiles(TerminationLists)
  /\ num_transactions = 0
  /\ current_date = start_date
  /\ InFirstCall

NextTermination ==
  \/ RecurringSeek
  \/ RecurringEmit(PlainTimeDraws, PlainTransactionDraws)
  \/ RecurringNext
  \/ RecurringReturn

SpecTermination ==
  InitTermination /\ [][NextTermination]_all_vars /\ WF_all_vars(NextTermination)

\* C29: generate_recurring_transactions terminates: every call returns its
\* list (control reaches the statement after the call)
C29_Terminates == <>(pc = "day_for")

\* a call that returned over an interval crossing the year, after the
\* charge of day 1 was emitted in January and in February
C29_Witness ==
  /\ pc = "day_for"
  /\ profile.recurring_transactions[1].day_of_month = 1
  /\ start_date = ToOrdinal(2023, 12, 2)
  /\ Len(transactions) = 2
  /\ DateOfRow(transactions[1]) = ToOrdinal(2024, 1, 1)
  /\ DateOfRow(transactions[2]) = ToOrdinal(2024, 2, 1)

(***************************************************************************)
(* The discount fields of the records of generate_dummy_data and the       *)
(* fields generate_description formats, under SpecOffer.                   *)
(***************************************************************************)
\* C30: no offer has both discount_percent and discount_value; a cashback
\* or first_purchase offer has exactly one of them; a reward_points,
\* free_delivery or limited_time offer has neither; no description formats
\* a discount field that is None
C30_DiscountFields ==
  \A i \in DOMAIN data :
    LET offer == data[i]
        percent == offer.discount_percent # None
        value == offer.discount_value # None
    IN /\ ~(percent /\ value)
       /\ offer.type \in {"cashback", "first_purchase"} => (percent # value)
       /\ offer.type \in {"reward_points", "free_delivery", "limited_time"} =>
            ~percent /\ ~value
       /\ \A k \in DOMAIN offer.description.discount :
            offer.description.discount[k] # None

\* a returned run with a fixed-amount cashback offer, whose text formats the
\* amount, and a percentage first_purchase offer, whose text formats the
\* percentage
C30_Witness ==
  /\ offer_pc = "returned"
  /\ Len(data) = 2
  /\ data[1].type = "cashback"
  /\ data[1].discount_percent = None
  /\ data[1].description.discount = <<data[1].discount_value>>
  /\ data[2].type = "first_purchase"
  /\ data[2].discount_value = None
  /\ data[2].description.discount = <<data[2].discount_percent>>

====
